---- MODULE Spec2Model ----
(***************************************************************************)
(* A model of mlat/server/mlattrack.py: the multilateration tracker that   *)
(* groups copies of one Mode S message, resolves each group MLAT_DELAY     *)
(* after its first copy, clusters the normalized timestamps and applies    *)
(* the acceptance policy against the aircraft's last result.               *)
(*                                                                         *)
(* Units.  Wall and loop time: 1 tick = 0.5 s.  Receiver timestamps:       *)
(* integer microseconds t, 0 <= t < 8 s, standing for the double nearest    *)
(* to t / 1e6 seconds.  Distances: integer metres.  Altitudes: 1e-4 m.     *)
(* Variances (var_est, last_result_var): 1 unit = 1e6 m^2.                 *)
(***************************************************************************)
EXTENDS Integers, Sequences, FiniteSets, TLC

VARIABLES
    now,             \* the clock of the event loop (time.monotonic, loop.time), ticks
    pending,         \* MlatTracker.pending: message -> group (a group id)
    group_objs,      \* the live MessageGroup objects, by group id
    timers,          \* callbacks scheduled on the event loop by call_later
    next_gid,        \* identity of the next MessageGroup object
    aircraft,        \* tracker.aircraft: address -> aircraft state
    blacklist,       \* MlatTracker.blacklist
    blacklist_file,  \* contents of mlat-blacklist.txt
    pseudorange_file, \* MlatTracker.pseudorange_file: TRUE when it is open
    pseudorange_filename, \* MlatTracker.pseudorange_filename, None when not given
    reloads,         \* the sets read_blacklist stored since the file last changed
    recorded_before_load, \* groups that held a copy when a load blacklisted its receiver
    last,            \* what the most recent run of _resolve did
    fires,           \* group id -> number of times its callback has run
    component,       \* argument of a direct call of _cluster_timestamps
    min_rcv,         \* argument of a direct call of _cluster_timestamps
    clusters,        \* its return value
    cpc              \* position of that call

tvars == <<now, pending, group_objs, timers, next_gid, aircraft, blacklist, pseudorange_file, pseudorange_filename, reloads, recorded_before_load,
           blacklist_file, last, fires>>

cvars == <<component, min_rcv, clusters, cpc>>

vars == <<now, pending, group_objs, timers, next_gid, aircraft, blacklist, pseudorange_file, pseudorange_filename, reloads, recorded_before_load,
          blacklist_file, last, fires, component, min_rcv, clusters, cpc>>

\* Python's None; a value v that may be None is kept as <<v>>
None == <<>>

Some(v) == <<v>>

(***************************************************************************)
(* Receivers (external entities): identity, position, operator.            *)
(***************************************************************************)
Receivers == {"RA", "RB", "RC", "RD", "RE", "RF"}

\* receiver.position, reduced to one coordinate (metres along a line)
Position(r) ==
    CASE r = "RA" -> 0
      [] r = "RB" -> 500
      [] r = "RC" -> 20000
      [] r = "RD" -> 40000
      [] r = "RE" -> 700000
      [] r = "RF" -> 60000

\* receiver.user: the operator identity, a string kept as its characters
User(r) ==
    CASE r = "RA" -> <<"a">>
      [] r = "RB" -> <<"a">>
      [] r = "RC" -> <<"c">>
      [] r = "RD" -> <<"d">>
      [] r = "RE" -> <<"e">>
      [] r = "RF" -> <<"f">>

Abs(x) == IF x < 0 THEN 0 - x ELSE x

\* receiver.distance[other_receiver]
Distance(r, o) == Abs(Position(r) - Position(o))

(***************************************************************************)
(* Constants of the clustering.                                            *)
(***************************************************************************)
\* 2e-3 s, in microseconds
TwoMs == 2000

Million == 1000000

RECURSIVE Doubled(_, _, _)
\* (v * 2^n) % m
Doubled(v, n, m) == IF n = 0 THEN v % m ELSE (2 * Doubled(v, n - 1, m)) % m

RECURSIVE PowerOfTwo(_)
PowerOfTwo(n) == IF n = 0 THEN 1 ELSE 2 * PowerOfTwo(n - 1)

RECURSIVE Lift(_)
\* the number of doublings that bring v > 0 to 8e6 or more
Lift(v) == IF v >= 8 * Million THEN 0 ELSE 1 + Lift(2 * v)

\* the double nearest to t / 1e6 (0 < t < 8e6) is n * 2^-Scale(t) with
\* 2^52 <= n <= 2^53, n the integer nearest to t * 2^Scale(t) / 1e6
Scale(t) == 49 + Lift(t)

\* n * 1e6 - t * 2^Scale(t): the rounding error of that double, in units of
\* 2^-Scale(t) / 1e6 seconds (t * 2^Scale(t) is never half-way between two
\* multiples of 1e6)
Residue(t) == IF Doubled(t, Scale(t), Million) < Million \div 2 THEN 0 - Doubled(t, Scale(t), Million) ELSE Million - Doubled(t, Scale(t), Million)

\* n is odd
SignificandOdd(t) == ((Doubled(t, Scale(t), 2 * Million) + Residue(t)) % (2 * Million)) \div Million = 1

Max(a, b) == IF a >= b THEN a ELSE b

\* (double(t + 2000) - double(t)) - double(2000), exact, in units of
\* 2^-s / 1e6 seconds, for s at least the three scales
Excess(t, s) == Residue(t + TwoMs) * PowerOfTwo(s - Scale(t + TwoMs)) - Residue(t) * PowerOfTwo(s - Scale(t)) - Residue(TwoMs) * PowerOfTwo(s - Scale(TwoMs))

\* half a unit in the last place of the double of 2e-3, in the same units
HalfUlp(s) == (Million \div 2) * PowerOfTwo(s - Scale(TwoMs))

\* the floating-point difference of two timestamps exactly 2000 us apart,
\* rounded to nearest (ties to even), is above the double 2e-3
RoundsAbove(t, s) == Excess(t, s) > HalfUlp(s) \/ (Excess(t, s) = HalfUlp(s) /\ SignificandOdd(TwoMs))

\* (later - earlier) > 2e-3 on the doubles of two timestamps: the test on
\* the integers, except when they are exactly 2000 us apart
MoreThanTwoMs(later, earlier) ==
    IF later - earlier = TwoMs
    THEN earlier > 0 /\ RoundsAbove(earlier, Max(Scale(earlier), Scale(TwoMs)))
    ELSE later - earlier > TwoMs

\* 1e3 m: receivers closer than this count as one
NearMetres == 1000

\* constants.Cair = 299792458 / 1.0003 m/s.  With dt in microseconds and d in
\* metres,  dt * 1e-6 > (d * 1.05 + 1e3) / Cair  is exactly
\*     dt * 299792458 > (105 * d + 100000) * 10003
\* Both products are kept as two limbs <<high, low>> in base 10000 so that no
\* intermediate value needs more than 32 bits (dt < 71000 us, d < 20000 km).
Limb == 10000

\* the speed of light in vacuum, m/s: 29979 * Limb + 2458
LightSpeed == <<29979, 2458>>

\* the refractive index of air 1.0003, times Limb
AirIndex == 10003

\* dt * 299792458 as limbs
DelayLimbs(dt) == <<dt * LightSpeed[1] + (dt * LightSpeed[2]) \div Limb, (dt * LightSpeed[2]) % Limb>>

\* x * 10003 = x * Limb + 3 * x as limbs
RangeLimbs(x) == <<x + (AirIndex - Limb) * (x \div Limb) + ((AirIndex - Limb) * (x % Limb)) \div Limb, ((AirIndex - Limb) * (x % Limb)) % Limb>>

LimbsGreater(a, b) == a[1] > b[1] \/ (a[1] = b[1] /\ a[2] > b[2])

\* abs(other_timestamp - timestamp) > (d * 1.05 + 1e3) / constants.Cair
TooFarApart(t1, t2, d) == LimbsGreater(DelayLimbs(Abs(t1 - t2)), RangeLimbs(105 * d + 100000))

(***************************************************************************)
(* Sequence helpers.                                                       *)
(***************************************************************************)
RemoveAt(s, i) == SubSeq(s, 1, i - 1) \o SubSeq(s, i + 1, Len(s))

Reverse(s) == [i \in 1..Len(s) |-> s[Len(s) + 1 - i]]

RECURSIVE InsertSorted(_, _, _)
\* insert e after every element whose key is <= Key(e): a stable insertion
InsertSorted(s, e, k) ==
    IF s = <<>> THEN <<e>>
    ELSE IF s[Len(s)][k] <= e[k] THEN Append(s, e)
    ELSE Append(InsertSorted(SubSeq(s, 1, Len(s) - 1), e, k), s[Len(s)])

RECURSIVE StableSort(_, _)
\* list.sort(key=operator.itemgetter(k-1)): stable, ascending
StableSort(s, k) ==
    IF s = <<>> THEN <<>>
    ELSE InsertSorted(StableSort(SubSeq(s, 1, Len(s) - 1), k), s[Len(s)], k)

(***************************************************************************)
(* _cluster_timestamps(component, min_receivers)                           *)
(* A component is the dict receiver -> (variance, timestamps), kept as the *)
(* sequence of its items <<receiver, variance, timestamps>> in dict order. *)
(* Entries are the tuples <<receiver, timestamp, variance>>.               *)
(***************************************************************************)
RECURSIVE FlattenItem(_, _, _)
FlattenItem(receiver, variance, timestamps) ==
    IF timestamps = <<>> THEN <<>>
    ELSE <<  <<receiver, Head(timestamps), variance>>  >>
           \o FlattenItem(receiver, variance, Tail(timestamps))

RECURSIVE Flatten(_)
Flatten(comp) ==
    IF comp = <<>> THEN <<>>
    ELSE FlattenItem(comp[1][1], comp[1][2], comp[1][3]) \o Flatten(Tail(comp))

RECURSIVE RoughGroups(_, _)
\* groups of items with inter-item spacing of at most 2ms; groups is the
\* list built so far, its last element the group being extended
RoughGroups(groups, rest) ==
    IF rest = <<>> THEN groups
    ELSE LET t == Head(rest)
             group == groups[Len(groups)]
         IN IF MoreThanTwoMs(t[2], group[Len(group)][2])
            THEN RoughGroups(Append(groups, <<t>>), Tail(rest))
            ELSE RoughGroups([groups EXCEPT ![Len(groups)] = Append(group, t)],
                             Tail(rest))

RECURSIVE CheckCandidateSeedOnly(_, _, _, _)
\* CheckCandidate with the range test made against the seed only
CheckCandidateSeedOnly(cand, cluster, j, is_distinct) ==
    IF j > Len(cluster) THEN [can_cluster |-> TRUE, is_distinct |-> is_distinct]
    ELSE LET other == cluster[j]
             d == Distance(cand[1], other[1])
         IN IF other[1] = cand[1]
            THEN [can_cluster |-> FALSE, is_distinct |-> is_distinct]
            ELSE IF j = 1 /\ TooFarApart(other[2], cand[2], d)
            THEN [can_cluster |-> FALSE, is_distinct |-> is_distinct]
            ELSE CheckCandidateSeedOnly(cand, cluster, j + 1,
                                        is_distinct /\ ~(d < NearMetres))

RECURSIVE CheckCandidateNoDup(_, _, _, _)
\* CheckCandidate without the duplicate-receiver test
CheckCandidateNoDup(cand, cluster, j, is_distinct) ==
    IF j > Len(cluster) THEN [can_cluster |-> TRUE, is_distinct |-> is_distinct]
    ELSE LET other == cluster[j]
             d == Distance(cand[1], other[1])
         IN IF TooFarApart(other[2], cand[2], d)
            THEN [can_cluster |-> FALSE, is_distinct |-> is_distinct]
            ELSE CheckCandidateNoDup(cand, cluster, j + 1,
                                     is_distinct /\ ~(d < NearMetres))

RECURSIVE CheckCandidateLastOnly(_, _, _, _)
\* CheckCandidate where is_distinct keeps only the last comparison
CheckCandidateLastOnly(cand, cluster, j, is_distinct) ==
    IF j > Len(cluster) THEN [can_cluster |-> TRUE, is_distinct |-> is_distinct]
    ELSE LET other == cluster[j]
             d == Distance(cand[1], other[1])
         IN IF other[1] = cand[1]
            THEN [can_cluster |-> FALSE, is_distinct |-> is_distinct]
            ELSE IF TooFarApart(other[2], cand[2], d)
            THEN [can_cluster |-> FALSE, is_distinct |-> is_distinct]
            ELSE CheckCandidateLastOnly(cand, cluster, j + 1, ~(d < NearMetres))

RECURSIVE CheckCandidate(_, _, _, _)
\* the strict test of one candidate against cluster[j..]: the inner for loop
CheckCandidate(cand, cluster, j, is_distinct) ==
    IF j > Len(cluster) THEN [can_cluster |-> TRUE, is_distinct |-> is_distinct]
    ELSE LET other == cluster[j]
             d == Distance(cand[1], other[1])
         IN IF other[1] = cand[1]
            THEN [can_cluster |-> FALSE, is_distinct |-> is_distinct]
            ELSE IF TooFarApart(other[2], cand[2], d)
            THEN [can_cluster |-> FALSE, is_distinct |-> is_distinct]
            ELSE CheckCandidate(cand, cluster, j + 1,
                                is_distinct /\ ~(d < NearMetres))

RECURSIVE ScanDropRejected(_, _, _, _, _)
\* Scan that deletes every examined candidate from the group, accepted or not
ScanDropRejected(group, i, cluster, last_timestamp, distinct_receivers) ==
    IF i < 1
    THEN [group |-> group, cluster |-> cluster, distinct |-> distinct_receivers]
    ELSE IF MoreThanTwoMs(last_timestamp, group[i][2])
    THEN [group |-> group, cluster |-> cluster, distinct |-> distinct_receivers]
    ELSE LET chk == CheckCandidate(group[i], cluster, 1, TRUE)
         IN IF chk.can_cluster
            THEN ScanDropRejected(RemoveAt(group, i), i - 1,
                      Append(cluster, group[i]), last_timestamp,
                      IF chk.is_distinct THEN distinct_receivers + 1
                                         ELSE distinct_receivers)
            ELSE ScanDropRejected(RemoveAt(group, i), i - 1, cluster,
                      last_timestamp, distinct_receivers)

RECURSIVE ScanKeepAccepted(_, _, _, _, _)
\* Scan that leaves the accepted candidates in the group
ScanKeepAccepted(group, i, cluster, last_timestamp, distinct_receivers) ==
    IF i < 1
    THEN [group |-> group, cluster |-> cluster, distinct |-> distinct_receivers]
    ELSE IF MoreThanTwoMs(last_timestamp, group[i][2])
    THEN [group |-> group, cluster |-> cluster, distinct |-> distinct_receivers]
    ELSE LET chk == CheckCandidate(group[i], cluster, 1, TRUE)
         IN IF chk.can_cluster
            THEN ScanKeepAccepted(group, i - 1, Append(cluster, group[i]),
                                  last_timestamp,
                                  IF chk.is_distinct THEN distinct_receivers + 1
                                                     ELSE distinct_receivers)
            ELSE ScanKeepAccepted(group, i - 1, cluster, last_timestamp,
                                  distinct_receivers)

RECURSIVE ScanLastAccepted(_, _, _, _, _)
\* Scan with the 2 ms cutoff measured from the member accepted last
ScanLastAccepted(group, i, cluster, last_timestamp, distinct_receivers) ==
    IF i < 1
    THEN [group |-> group, cluster |-> cluster, distinct |-> distinct_receivers]
    ELSE IF MoreThanTwoMs(last_timestamp, group[i][2])
    THEN [group |-> group, cluster |-> cluster, distinct |-> distinct_receivers]
    ELSE LET chk == CheckCandidate(group[i], cluster, 1, TRUE)
         IN IF chk.can_cluster
            THEN ScanLastAccepted(RemoveAt(group, i), i - 1,
                                  Append(cluster, group[i]), group[i][2],
                                  IF chk.is_distinct THEN distinct_receivers + 1
                                                     ELSE distinct_receivers)
            ELSE ScanLastAccepted(group, i - 1, cluster, last_timestamp,
                                  distinct_receivers)

RECURSIVE Scan(_, _, _, _, _)
\* for i in range(len(group) - 1, -1, -1): ... (i is 1-based here)
Scan(group, i, cluster, last_timestamp, distinct_receivers) ==
    IF i < 1
    THEN [group |-> group, cluster |-> cluster, distinct |-> distinct_receivers]
    ELSE IF MoreThanTwoMs(last_timestamp, group[i][2])
    THEN [group |-> group, cluster |-> cluster, distinct |-> distinct_receivers]
    ELSE LET chk == CheckCandidate(group[i], cluster, 1, TRUE)
         IN IF chk.can_cluster
            THEN Scan(RemoveAt(group, i), i - 1, Append(cluster, group[i]),
                      last_timestamp,
                      IF chk.is_distinct THEN distinct_receivers + 1
                                         ELSE distinct_receivers)
            ELSE Scan(group, i - 1, cluster, last_timestamp, distinct_receivers)

RECURSIVE ClusterGroupKeepAll(_, _, _)
\* variant: a cluster is kept whatever its number of distinct receivers
ClusterGroupKeepAll(group, min_receivers, clusters_) ==
    IF Len(group) < 3 THEN clusters_
    ELSE LET tail == group[Len(group)]
             popped == SubSeq(group, 1, Len(group) - 1)
             s == Scan(popped, Len(popped), <<tail>>, tail[2], 1)
         IN ClusterGroupKeepAll(s.group, min_receivers,
                Append(clusters_, <<s.distinct, Reverse(s.cluster)>>))

RECURSIVE ClusterGroup(_, _, _)
\* while len(group) >= 3: ...   (clusters_ is the list built so far)
ClusterGroup(group, min_receivers, clusters_) ==
    IF Len(group) < 3 THEN clusters_
    ELSE LET tail == group[Len(group)]
             popped == SubSeq(group, 1, Len(group) - 1)
             s == Scan(popped, Len(popped), <<tail>>, tail[2], 1)
         IN ClusterGroup(s.group, min_receivers,
                IF s.distinct >= min_receivers
                THEN Append(clusters_, <<s.distinct, Reverse(s.cluster)>>)
                ELSE clusters_)

RECURSIVE Iterations(_)
\* the number of iterations of "while len(group) >= 3" made on a group
Iterations(group) ==
    IF Len(group) < 3 THEN 0
    ELSE LET tail == group[Len(group)]
             popped == SubSeq(group, 1, Len(group) - 1)
         IN 1 + Iterations(Scan(popped, Len(popped), <<tail>>, tail[2], 1).group)

RECURSIVE ClusterGroups(_, _, _)
ClusterGroups(groups, min_receivers, clusters_) ==
    IF groups = <<>> THEN clusters_
    ELSE ClusterGroups(Tail(groups), min_receivers,
                       ClusterGroup(Head(groups), min_receivers, clusters_))

cluster_timestamps(comp, min_receivers) ==
    LET flat_component == StableSort(Flatten(comp), 2)
        groups == RoughGroups(<< <<flat_component[1]>> >>, Tail(flat_component))
    IN ClusterGroups(groups, min_receivers, <<>>)

\* variance reported by the normalizer for a receiver, in us^2 (1e-12 s^2)
NormVariance(r) == 1

(***************************************************************************)
(* Constants of the tracker.  Times are in ticks of 0.5 s.                 *)
(***************************************************************************)
\* config.MLAT_DELAY = 2.5 s
MLAT_DELAY == 5

\* a last result older than 120 s is ignored
ResultMaxAge == 240

\* basic ratelimit: fewer receivers are refused for 15 s
RateFewer == 30

\* basic ratelimit / accuracy test: 2.0 s
RateSame == 4

\* acceptance loop: fewer distinct receivers are refused for 10 s
AcceptFewer == 20

\* constants.FTOM = 0.3038 (metres per foot), times 1e4
FtomE4 == 3038

\* 100e6 m^2: variance given to a result without covariance, and the limit
VarLimit == 100

\* 1e9 m^2: variance standing for "no last result"
VarNoResult == 1000

\* less than 3 messages -> no go
MinCopies == 3

(***************************************************************************)
(* External collaborators.                                                 *)
(***************************************************************************)
Messages == {"M1", "M2", "MU", "MX"}

\* modes.message.decode: M1 carries an altitude, M2 a squawk and a callsign,
\* MU is from an aircraft the tracker does not know, MX is malformed; M3 is
\* another squawk report of the known aircraft
decode(message) ==
    CASE message = "M1" -> Some([address |-> "A1", altitude |-> Some(10025),
                                 squawk |-> None, callsign |-> None])
      [] message = "M2" -> Some([address |-> "A1", altitude |-> None,
                                 squawk |-> Some("7000"),
                                 callsign |-> Some("CALL")])
      [] message = "MU" -> Some([address |-> "A2", altitude |-> None,
                                 squawk |-> None, callsign |-> None])
      [] message = "MX" -> None
      [] message = "M3" -> Some([address |-> "A1", altitude |-> None,
                                 squawk |-> Some("1200"), callsign |-> None])

\* offset of a receiver's own clock against the common timebase (us)
ClockOffset(r) ==
    CASE r = "RA" -> 0
      [] r = "RB" -> 40
      [] r = "RC" -> 500000
      [] r = "RD" -> 7
      [] r = "RE" -> 123456
      [] r = "RF" -> 99

RECURSIVE ShiftAll(_, _)
ShiftAll(timestamps, offset) ==
    IF timestamps = <<>> THEN <<>>
    ELSE <<Head(timestamps) - offset>> \o ShiftAll(Tail(timestamps), offset)

RECURSIVE NormalizeItems(_, _, _)
\* the items of timestamp_map whose receiver is (synced = TRUE) or is not
\* (synced = FALSE) in the main component, with comparable timestamps
NormalizeItems(timestamp_map, unsynced, synced) ==
    IF timestamp_map = <<>> THEN <<>>
    ELSE LET receiver == timestamp_map[1][1]
             item == <<receiver, NormVariance(receiver),
                       ShiftAll(timestamp_map[1][2], ClockOffset(receiver))>>
         IN (IF (receiver \in unsynced) = synced THEN <<>> ELSE <<item>>)
            \o NormalizeItems(Tail(timestamp_map), unsynced, synced)

\* clocknorm.normalize: the receivers whose clocks are related form one
\* component; every receiver in unsynced is a component of its own
normalize(timestamp_map, unsynced) ==
    LET main == NormalizeItems(timestamp_map, unsynced, TRUE)
        alone == NormalizeItems(timestamp_map, unsynced, FALSE)
    IN (IF main = <<>> THEN <<>> ELSE <<main>>)
       \o [i \in 1..Len(alone) |-> <<alone[i]>>]

\* what one call of solver.solve may return
SolverOutcomes == {<<"none", 0>>, <<"nocov", 0>>,
                   <<"cov", 50>>, <<"cov", 56>>, <<"cov", 101>>}

\* solver.solve(cluster, altitude, altitude_error, seed): no estimate, or a
\* position with a covariance (kept as its trace) or without one
solve(cluster, outcome) ==
    IF outcome[1] = "none" THEN None
    ELSE Some([ecef |-> {cluster[i][1] : i \in 1..Len(cluster)},
               ecef_cov |-> IF outcome[1] = "nocov" THEN None
                            ELSE Some(outcome[2])])

\* coordinator.output_handlers
OutputHandlers == <<"h1", "h2">>

(***************************************************************************)
(* MlatTracker._resolve, after the removal from the pending table.         *)
(***************************************************************************)
RECURSIVE TimestampMapUnfiltered(_, _, _)
\* variant: the copies of blacklisted receivers are kept
TimestampMapUnfiltered(copies, blk, map) ==
    IF copies = <<>> THEN map
    ELSE LET receiver == copies[1][1]
             timestamp == copies[1][2]
             at == {i \in 1..Len(map) : map[i][1] = receiver}
         IN TimestampMapUnfiltered(Tail(copies), blk,
                IF at = {} THEN Append(map, <<receiver, <<timestamp>>>>)
                ELSE LET i == CHOOSE j \in at : TRUE
                     IN [map EXCEPT ![i][2] = Append(@, timestamp)])

RECURSIVE TimestampMap(_, _, _)
\* receiver -> list of timestamps, as the list of the dict's items
TimestampMap(copies, blk, map) ==
    IF copies = <<>> THEN map
    ELSE LET receiver == copies[1][1]
             timestamp == copies[1][2]
             at == {i \in 1..Len(map) : map[i][1] = receiver}
         IN TimestampMap(Tail(copies), blk,
                IF User(receiver) \in blk THEN map
                ELSE IF at = {} THEN Append(map, <<receiver, <<timestamp>>>>)
                ELSE LET i == CHOOSE j \in at : TRUE
                     IN [map EXCEPT ![i][2] = Append(@, timestamp)])

RECURSIVE ClusterComponentsStrict(_, _, _)
\* variant: a component needs more than min_receivers receivers
ClusterComponentsStrict(components, min_receivers, clusters_) ==
    IF components = <<>> THEN clusters_
    ELSE ClusterComponentsStrict(Tail(components), min_receivers,
            IF Len(Head(components)) > min_receivers
            THEN clusters_ \o cluster_timestamps(Head(components), min_receivers)
            ELSE clusters_)

RECURSIVE ClusterComponents(_, _, _)
\* clusters of every component that has at least min_receivers receivers
ClusterComponents(components, min_receivers, clusters_) ==
    IF components = <<>> THEN clusters_
    ELSE ClusterComponents(Tail(components), min_receivers,
            IF Len(Head(components)) >= min_receivers
            THEN clusters_ \o cluster_timestamps(Head(components), min_receivers)
            ELSE clusters_)

\* variant: a result with fewer receivers is accepted at any time
RejectFewerNever(elapsed, distinct, last_result_distinct) == FALSE

\* accept fewer receivers after 10s
RejectFewer(elapsed, distinct, last_result_distinct) ==
    elapsed < AcceptFewer /\ distinct < last_result_distinct

\* variant: a result with the same number of receivers is accepted at any time
RejectSameNever(elapsed, distinct, last_result_distinct) == FALSE

\* accept the same number of receivers after MLAT_DELAY - 0.5s
RejectSame(elapsed, distinct, last_result_distinct) ==
    elapsed < (MLAT_DELAY - 1) /\ distinct = last_result_distinct

\* basic ratelimit before we do more work; n is len(timestamp_map)
RateLimited(elapsed, n, last_result_distinct) ==
    \/ elapsed < RateFewer /\ n < last_result_distinct
    \/ elapsed < RateSame /\ n = last_result_distinct

\* variant: the quorum floor set one copy too low
FewCopiesOffByOne(group) == Len(group.copies) < MinCopies - 1

\* less than 3 messages -> no go
FewCopies(group) == Len(group.copies) < MinCopies

RECURSIVE AcceptLoop(_, _, _, _, _, _, _)
\* while clusters and not result: ...   calls lists the clusters given to
\* the solver so far; oracle[n] is what the solver returns to its n-th call
AcceptLoop(clusters_, oracle, calls, elapsed, last_result_distinct, last_result_var, seed) ==
    IF clusters_ = <<>> THEN [result |-> None, calls |-> calls]
    ELSE LET distinct == clusters_[Len(clusters_)][1]
             cluster == StableSort(clusters_[Len(clusters_)][2], 2)
             rest == SubSeq(clusters_, 1, Len(clusters_) - 1)
             r == solve(cluster, oracle[Len(calls) + 1])
             calls2 == Append(calls, [cluster |-> cluster,
                         seed |-> IF seed # None THEN seed
                                  ELSE Some({cluster[1][1]}),
                         returned |-> r])
             var_est == IF r[1].ecef_cov # None THEN r[1].ecef_cov[1]
                        ELSE VarLimit
         IN IF RejectFewer(elapsed, distinct, last_result_distinct)
            THEN [result |-> None, calls |-> calls]
            ELSE IF RejectSame(elapsed, distinct, last_result_distinct)
            THEN [result |-> None, calls |-> calls]
            ELSE IF r = None
            THEN AcceptLoop(rest, oracle, calls2, elapsed, last_result_distinct,
                            last_result_var, seed)
            ELSE IF var_est > VarLimit
            THEN AcceptLoop(rest, oracle, calls2, elapsed, last_result_distinct,
                            last_result_var, seed)
            ELSE IF elapsed < RateSame /\ 10 * var_est > 11 * last_result_var
            THEN AcceptLoop(rest, oracle, calls2, elapsed, last_result_distinct,
                            last_result_var, seed)
            ELSE [result |-> r, var_est |-> var_est, distinct |-> distinct,
                  cluster |-> cluster, calls |-> calls2]

\* what a run of _resolve that did nothing would report
Report(gid, group) ==
    [gid |-> gid, message |-> group.message, copies |-> Len(group.copies),
     now |-> 0, outcome |-> "none", exception |-> "none", elapsed |-> 0,
     last_result_distinct |-> 0, min_receivers |-> 0, timestamp_map |-> <<>>,
     normalize_calls |-> 0, components |-> <<>>, clusters |-> <<>>,
     solver_calls |-> <<>>, kalman_updates |-> <<>>, handler_calls |-> <<>>,
     pseudorange_records |-> <<>>]

\* variant: only the altitude is refreshed
RefreshAltitudeOnly(ac, decoded, t) ==
    IF decoded.altitude # None
    THEN [ac EXCEPT !.altitude = decoded.altitude, !.last_altitude_time = Some(t)]
    ELSE ac

\* the state refresh: altitude, squawk, callsign
Refresh(ac, decoded, t) ==
    LET ac1 == IF decoded.altitude # None
               THEN [ac EXCEPT !.altitude = decoded.altitude,
                               !.last_altitude_time = Some(t)]
               ELSE ac
        ac2 == IF decoded.squawk # None
               THEN [ac1 EXCEPT !.squawk = decoded.squawk] ELSE ac1
    IN IF decoded.callsign # None
       THEN [ac2 EXCEPT !.callsign = decoded.callsign] ELSE ac2

\* altitude_error = (250 + (now - ac.last_altitude_time) * 70) * FTOM, in 1e-4 m
AltitudeErrorE4(ac, t) == (250 + (t - ac.last_altitude_time[1]) * 35) * FtomE4

\* altitude = ac.altitude * FTOM, in 1e-4 m
AltitudeE4(ac) == ac.altitude[1] * FtomE4

MinReceivers(ac, t) ==
    IF ac.altitude = None THEN 4
    ELSE IF AltitudeErrorE4(ac, t) < 1000 * 10000 THEN 3 ELSE 4

\* round(x, 0) of x given in 1e-4 units: to the nearest integer, ties to even
RoundE4(v) ==
    LET q == v \div 10000
        r == v % 10000
    IN IF r > 5000 \/ (r = 5000 /\ q % 2 = 1) THEN q + 1 ELSE q

\* cluster_state of the pseudorange record: position, time after the first
\* entry (us) and variance (us^2) of every entry of the cluster
ClusterState(cluster) ==
    [i \in 1..Len(cluster) |->
        <<Position(cluster[i][1]), cluster[i][2] - cluster[1][2], cluster[i][3]>>]

\* the accepted result: the last_result fields, the smoother update, the
\* output handlers and, when the pseudorange file is open, its record
Commit(rep3, acs, ac, decoded, group, loop, altitude, altitude_error, t, pseudo) ==
    LET ecef == loop.result[1].ecef
        ecef_cov == loop.result[1].ecef_cov
        committed == [ac EXCEPT !.last_result_position = Some(ecef),
                                !.last_result_var = Some(loop.var_est),
                                !.last_result_distinct = Some(loop.distinct),
                                !.last_result_time = Some(t)]
        update == [first_seen |-> group.first_seen, cluster |-> loop.cluster,
                   altitude |-> altitude, altitude_error |-> altitude_error,
                   ecef |-> ecef, ecef_cov |-> ecef_cov,
                   distinct |-> loop.distinct]
        call == [first_seen |-> group.first_seen, address |-> decoded.address,
                 ecef |-> ecef, ecef_cov |-> ecef_cov,
                 receivers |-> [i \in 1..Len(loop.cluster) |-> loop.cluster[i][1]],
                 distinct |-> loop.distinct]
        rep4 == [rep3 EXCEPT !.outcome = "accepted",
                    !.kalman_updates = <<update>>,
                    !.handler_calls =
                        [h \in 1..Len(OutputHandlers) |->
                            [handler |-> OutputHandlers[h], args |-> call]]]
        state == [icao |-> decoded.address, time |-> group.first_seen,
                  ecef |-> ecef, ecef_cov |-> ecef_cov[1],
                  distinct |-> loop.distinct,
                  cluster |-> ClusterState(loop.cluster),
                  altitude |-> IF altitude = None THEN None
                               ELSE Some(RoundE4(altitude[1])),
                  altitude_error |-> IF altitude = None THEN None
                                     ELSE Some(RoundE4(altitude_error[1]))]
    IN [aircraft |-> [acs EXCEPT ![decoded.address] = committed],
        last |-> [rep4 EXCEPT
                    !.exception = IF pseudo /\ ecef_cov = None
                                  THEN "TypeError" ELSE @,
                    !.pseudorange_records = IF pseudo /\ ecef_cov # None
                                            THEN <<state>> ELSE @]]

\* The body of _resolve for one group: the new aircraft table and the report.
\* blk is the blacklist, t the monotonic time, pseudo tells whether the
\* pseudorange file is open, unsynced and oracle are what the normalizer and
\* the solver answer.
Resolve(gid, group, acs, blk, t, pseudo, unsynced, oracle) ==
    LET rep == [Report(gid, group) EXCEPT !.now = t]
        decoding == decode(group.message)
        decoded == decoding[1]
    IN
    IF FewCopies(group)
    THEN [aircraft |-> acs, last |-> [rep EXCEPT !.outcome = "few_copies"]]
    ELSE IF decoding = None
    THEN [aircraft |-> acs,
          last |-> [rep EXCEPT !.outcome = "decode_error",
                               !.exception = "decode"]]
    ELSE IF decoded.address \notin DOMAIN acs
    THEN [aircraft |-> acs, last |-> [rep EXCEPT !.outcome = "unknown_aircraft"]]
    ELSE
    LET ac == Refresh(acs[decoded.address], decoded, t)
        no_last == \/ ac.last_result_position = None
                   \/ (t - ac.last_result_time[1]) > ResultMaxAge
        last_result_position == IF no_last THEN None ELSE ac.last_result_position
        last_result_var == IF no_last THEN VarNoResult ELSE ac.last_result_var[1]
        last_result_distinct == IF no_last THEN 0
                                ELSE ac.last_result_distinct[1]
        elapsed == IF no_last THEN ResultMaxAge ELSE t - ac.last_result_time[1]
        altitude == IF ac.altitude = None THEN None ELSE Some(AltitudeE4(ac))
        altitude_error == IF ac.altitude = None THEN None
                          ELSE Some(AltitudeErrorE4(ac, t))
        min_receivers == MinReceivers(ac, t)
        timestamp_map == TimestampMap(group.copies, blk, <<>>)
        rep1 == [rep EXCEPT !.min_receivers = min_receivers,
                            !.timestamp_map = timestamp_map,
                            !.elapsed = elapsed,
                            !.last_result_distinct = last_result_distinct]
        acs1 == [acs EXCEPT ![decoded.address] = ac]
    IN
    IF Len(timestamp_map) < min_receivers
    THEN [aircraft |-> acs1, last |-> [rep1 EXCEPT !.outcome = "few_receivers"]]
    ELSE IF RateLimited(elapsed, Len(timestamp_map), last_result_distinct)
    THEN [aircraft |-> acs1, last |-> [rep1 EXCEPT !.outcome = "ratelimit"]]
    ELSE
    LET components == normalize(timestamp_map, unsynced)
        clusters_ == ClusterComponents(components, min_receivers, <<>>)
        rep2 == [rep1 EXCEPT !.normalize_calls = 1, !.components = components,
                             !.clusters = clusters_]
    IN
    IF clusters_ = <<>>
    THEN [aircraft |-> acs1, last |-> [rep2 EXCEPT !.outcome = "no_clusters"]]
    ELSE
    LET loop == AcceptLoop(StableSort(clusters_, 1), oracle, <<>>, elapsed,
                           last_result_distinct, last_result_var,
                           last_result_position)
        rep3 == [rep2 EXCEPT !.solver_calls = loop.calls]
    IN
    IF loop.result = None
    THEN [aircraft |-> acs1, last |-> [rep3 EXCEPT !.outcome = "no_result"]]
    ELSE
    Commit(rep3, acs, ac, decoded, group, loop, altitude, altitude_error, t, pseudo)

(***************************************************************************)
(* MlatTracker.read_blacklist.  The file is None when it does not exist,   *)
(* else its lines as text-mode reading delivers them (every line ending    *)
(* arrives as "\n", the last character of its line); a line is the         *)
(* sequence of its characters.                                             *)
(***************************************************************************)
\* the characters str.strip() removes (those for which str.isspace() holds):
\* space, tab, line feed, carriage return, form feed, then U+000B, U+001C to
\* U+001F, U+0085, U+00A0 and U+1680 written as the characters themselves.
\* The remaining ones (U+2000 to U+200A, U+2028, U+2029, U+202F, U+205F,
\* U+3000) cannot appear in a string of this module and are outside the
\* alphabet of the modelled files.
Whitespace ==
    {" ", "\t", "\n", "\r", "\f",
     "", "", "", "", "", "", " ", " "}

RECURSIVE LStrip(_)
LStrip(str) ==
    IF str # <<>> /\ Head(str) \in Whitespace THEN LStrip(Tail(str)) ELSE str

RECURSIVE RStrip(_)
RStrip(str) ==
    IF str # <<>> /\ str[Len(str)] \in Whitespace
    THEN RStrip(SubSeq(str, 1, Len(str) - 1)) ELSE str

\* str.strip()
Strip(str) == RStrip(LStrip(str))

\* f.readline() on a freshly opened file
ReadLine(lines) == IF lines = <<>> THEN <<>> ELSE Head(lines)

\* the set read_blacklist stores in self.blacklist
ReadBlacklist(file) ==
    IF file = None THEN {}
    ELSE LET user == Strip(ReadLine(file[1]))
         IN IF user # <<>> THEN {user} ELSE {}

(***************************************************************************)
(* Bounds of the tracker model.                                            *)
(***************************************************************************)
\* identities of the MessageGroup objects created in one behaviour
GroupIds == {1, 2}

\* copies recorded in one group
MaxCopies == 6

\* the clock stops here
MaxNow == 250

\* loads of the blacklist (the constructor's and the SIGHUPs) of one file
MaxReloads == 3

(***************************************************************************)
(* The state after MlatTracker.__init__, for a given blacklist file.       *)
(***************************************************************************)
NoAircraftState ==
    [altitude |-> None, last_altitude_time |-> None, squawk |-> None,
     callsign |-> None, last_result_position |-> None,
     last_result_var |-> None, last_result_distinct |-> None,
     last_result_time |-> None]

NoReport == Report(0, [message |-> "none", copies |-> <<>>])

\* the truth value of a file name: None and the empty string are false
Truthy(name) == name # None /\ name # Some("")

TrackerInit(files, pseudos) ==
    /\ now = 0
    /\ pending = <<>>
    /\ group_objs = <<>>
    /\ timers = {}
    /\ next_gid = 1
    /\ aircraft = [a \in {"A1"} |-> NoAircraftState]
    /\ blacklist_file \in files
    /\ blacklist = ReadBlacklist(blacklist_file)
    /\ pseudorange_filename \in pseudos
    /\ pseudorange_file = Truthy(pseudorange_filename)
    /\ reloads = <<blacklist>>
    /\ recorded_before_load = {}
    /\ last = NoReport
    /\ fires = <<>>

ClusterIdle ==
    /\ component = <<>>
    /\ min_rcv = 0
    /\ clusters = <<>>
    /\ cpc = "idle"

(***************************************************************************)
(* Actions of the tracker.                                                 *)
(***************************************************************************)
\* the pending groups that hold a copy of a receiver whose operator is put on
\* the blacklist by a load that stores the set blk
NewlyBlacklisted(blk) ==
    {pending[m] : m \in {m2 \in DOMAIN pending :
        \E i \in 1..Len(group_objs[pending[m2]].copies) :
            User(group_objs[pending[m2]].copies[i][1]) \in blk \ blacklist}}

\* variant: the entry is added to the current set instead of a fresh one
read_blacklistAccumulate ==
    /\ Len(reloads) < MaxReloads
    /\ blacklist' = blacklist \cup ReadBlacklist(blacklist_file)
    /\ reloads' = Append(reloads, blacklist')
    /\ recorded_before_load' = recorded_before_load \cup NewlyBlacklisted(blacklist')
    /\ UNCHANGED <<now, pending, group_objs, timers, next_gid, aircraft,
                   blacklist_file, last, fires, pseudorange_file, pseudorange_filename, cvars>>

\* SIGHUP: the coordinator calls read_blacklist
read_blacklist ==
    /\ Len(reloads) < MaxReloads
    /\ blacklist' = ReadBlacklist(blacklist_file)
    /\ reloads' = Append(reloads, blacklist')
    /\ recorded_before_load' = recorded_before_load \cup NewlyBlacklisted(blacklist')
    /\ UNCHANGED <<now, pending, group_objs, timers, next_gid, aircraft,
                   blacklist_file, last, fires, pseudorange_file, pseudorange_filename, cvars>>

\* the operator replaces or removes mlat-blacklist.txt
WriteBlacklistFile(file) ==
    /\ blacklist_file # file
    /\ blacklist_file' = file
    /\ reloads' = <<>>
    /\ UNCHANGED <<now, pending, group_objs, timers, next_gid, aircraft,
                   blacklist, last, fires, pseudorange_file, pseudorange_filename,
                   recorded_before_load, cvars>>

\* MlatTracker.reopen_pseudoranges: an open file is closed and the attribute
\* set to None, then open() gives the file (opens) or raises and leaves None;
\* without a file name, or with an empty one, open() raises
reopen_pseudoranges(opens) ==
    /\ pseudorange_file' = (Truthy(pseudorange_filename) /\ opens)
    /\ UNCHANGED <<now, pending, group_objs, timers, next_gid, aircraft,
                   blacklist, blacklist_file, last, fires, pseudorange_filename,
                   reloads, recorded_before_load, cvars>>

\* variant: a resolution is scheduled for every copy, not only for the first
receiver_mlatEveryCopy(receiver, timestamp, message, time_time) ==
    LET gid == IF message \in DOMAIN pending THEN pending[message] ELSE next_gid
        handle == [when |-> now + MLAT_DELAY, group |-> gid]
    IN /\ IF message \notin DOMAIN pending
          THEN /\ gid \in GroupIds
               /\ now + MLAT_DELAY <= MaxNow
               /\ group_objs' = group_objs @@
                     (gid :> [message |-> message, first_seen |-> time_time,
                              copies |-> << <<receiver, timestamp>> >>,
                              handle |-> handle])
               /\ pending' = pending @@ (message :> gid)
               /\ next_gid' = next_gid + 1
               /\ fires' = fires @@ (gid :> 0)
          ELSE /\ Len(group_objs[gid].copies) < MaxCopies
               /\ group_objs' =
                     [group_objs EXCEPT ![gid].copies =
                                            Append(@, <<receiver, timestamp>>)]
               /\ UNCHANGED <<pending, next_gid, fires>>
       /\ timers' = timers \cup {handle}
       /\ UNCHANGED <<now, aircraft, blacklist, blacklist_file, last, pseudorange_file, pseudorange_filename, reloads, recorded_before_load, cvars>>

\* variant: every copy puts a new group in the table, with its own timer
receiver_mlatReplace(receiver, timestamp, message, time_time) ==
    LET gid == next_gid
        handle == [when |-> now + MLAT_DELAY, group |-> gid]
    IN /\ gid \in GroupIds
       /\ now + MLAT_DELAY <= MaxNow
       /\ group_objs' = group_objs @@
             (gid :> [message |-> message, first_seen |-> time_time,
                      copies |-> << <<receiver, timestamp>> >>,
                      handle |-> handle])
       /\ pending' = (message :> gid) @@ pending
       /\ timers' = timers \cup {handle}
       /\ next_gid' = next_gid + 1
       /\ fires' = fires @@ (gid :> 0)
       /\ UNCHANGED <<now, aircraft, blacklist, blacklist_file, last, pseudorange_file, pseudorange_filename, reloads, recorded_before_load, cvars>>

\* MlatTracker.receiver_mlat(receiver, timestamp, message); time_time is the
\* reading of the wall clock time.time() kept as first_seen, while the
\* resolution is scheduled on the clock of the event loop
receiver_mlat(receiver, timestamp, message, time_time) ==
    LET group == IF message \in DOMAIN pending THEN Some(pending[message])
                 ELSE None
    IN /\ IF group = None
          THEN LET gid == next_gid
                   handle == [when |-> now + MLAT_DELAY, group |-> gid]
               IN /\ gid \in GroupIds
                  /\ now + MLAT_DELAY <= MaxNow
                  /\ group_objs' = group_objs @@
                        (gid :> [message |-> message, first_seen |-> time_time,
                                 copies |-> << <<receiver, timestamp>> >>,
                                 handle |-> handle])
                  /\ pending' = pending @@ (message :> gid)
                  /\ timers' = timers \cup {handle}
                  /\ next_gid' = next_gid + 1
                  /\ fires' = fires @@ (gid :> 0)
          ELSE /\ Len(group_objs[group[1]].copies) < MaxCopies
               /\ group_objs' =
                     [group_objs EXCEPT ![group[1]].copies =
                                            Append(@, <<receiver, timestamp>>)]
               /\ UNCHANGED <<pending, timers, next_gid, fires>>
       /\ UNCHANGED <<now, aircraft, blacklist, blacklist_file, last, pseudorange_file, pseudorange_filename, reloads, recorded_before_load, cvars>>

\* the group objects still referenced by the table or by a scheduled callback
Referenced(pend, tms) ==
    {pend[m] : m \in DOMAIN pend} \cup {h.group : h \in tms}

\* variant: the table entry is deleted only once the quorum floor is passed
resolveKeepOnAbort(handle, unsynced, oracle) ==
    LET gid == handle.group
        group == group_objs[gid]
        res == Resolve(gid, group, aircraft, blacklist, now, pseudorange_file, unsynced, oracle)
    IN /\ handle \in timers
       /\ handle.when <= now
       /\ timers' = timers \ {handle}
       /\ fires' = [fires EXCEPT ![gid] = @ + 1]
       /\ pending' = IF FewCopies(group) THEN pending
                     ELSE [m \in DOMAIN pending \ {group.message} |-> pending[m]]
       /\ aircraft' = res.aircraft
       /\ last' = res.last
       /\ group_objs' = [g \in DOMAIN group_objs \cap Referenced(pending', timers')
                            |-> group_objs[g]]
       /\ UNCHANGED <<now, next_gid, blacklist, blacklist_file, pseudorange_file, pseudorange_filename, reloads, recorded_before_load, cvars>>

\* the event loop runs the callback scheduled as handle: _resolve(group)
resolve(handle, unsynced, oracle) ==
    LET gid == handle.group
        group == group_objs[gid]
        res == Resolve(gid, group, aircraft, blacklist, now, pseudorange_file, unsynced, oracle)
    IN /\ handle \in timers
       /\ handle.when <= now
       /\ timers' = timers \ {handle}
       /\ fires' = [fires EXCEPT ![gid] = @ + 1]
       /\ IF group.message \in DOMAIN pending
          THEN /\ pending' = [m \in DOMAIN pending \ {group.message} |-> pending[m]]
               /\ aircraft' = res.aircraft
               /\ last' = res.last
          ELSE /\ pending' = pending
               /\ aircraft' = aircraft
               /\ last' = [Report(gid, group) EXCEPT !.now = now,
                                                      !.outcome = "key_error",
                                                      !.exception = "KeyError"]
       /\ group_objs' = [g \in DOMAIN group_objs \cap Referenced(pending', timers')
                            |-> group_objs[g]]
       /\ UNCHANGED <<now, next_gid, blacklist, blacklist_file, pseudorange_file, pseudorange_filename, reloads, recorded_before_load, cvars>>

Min(a, b) == IF a <= b THEN a ELSE b

\* the earliest time at which a scheduled callback is due
NextDue == CHOOSE w \in {h.when : h \in timers} : \A h \in timers : w <= h.when

\* time passes while callbacks are scheduled: the loop sleeps for step ticks,
\* or until the next callback is due if that is sooner
Tick(step) ==
    /\ timers # {}
    /\ NextDue > now
    /\ now' = Min(now + step, NextDue)
    /\ UNCHANGED <<pending, group_objs, timers, next_gid, aircraft, blacklist,
                   blacklist_file, last, fires, pseudorange_file, pseudorange_filename, reloads, recorded_before_load, cvars>>

\* nothing is pending after a resolution: time passes until the next message
Idle(step) ==
    /\ timers = {}
    /\ last.outcome # "none"
    /\ now = last.now
    /\ next_gid \in GroupIds
    /\ now + step + MLAT_DELAY <= MaxNow
    /\ now' = now + step
    /\ UNCHANGED <<pending, group_objs, timers, next_gid, aircraft, blacklist,
                   blacklist_file, last, fires, pseudorange_file, pseudorange_filename, reloads, recorded_before_load, cvars>>

(***************************************************************************)
(* Spec: the tracker fed by receivers and driven by the event loop.        *)
(***************************************************************************)
\* contents of mlat-blacklist.txt
BlacklistFiles ==
    { None,
      Some(<<>>),
      Some(<< <<"\t", "e", " ", "\n">>, <<"c", "\n">> >>),
      Some(<< <<" ", "\n">>, <<"e", "\n">> >>),
      Some(<< <<"c">> >>) }

\* answers of the normalizer: the receivers whose clock is not synchronized
UnsyncedChoices == { {}, {"RD"} }

\* what the receivers deliver for a message, in order of arrival: the
\* receiver and the times (common timebase, us) at which it may have heard it.
\* RD may hear an echo 150 us late; M2 is retransmitted 4 ms later; M3 is
\* heard by the two receivers that are 500 m apart.
FeedOrder(message) ==
    CASE message \in {"MU", "MX"} ->
            << <<"RA", {1000}>>, <<"RC", {1000}>>, <<"RD", {1000}>> >>
      [] message = "M1" ->
            << <<"RA", {1000}>>, <<"RC", {1000}>>, <<"RD", {1000, 1150}>>,
               <<"RE", {1000}>>, <<"RF", {1000}>> >>
      [] message = "M2" ->
            << <<"RA", {1000}>>, <<"RC", {1000}>>, <<"RD", {1000}>>,
               <<"RA", {5000}>>, <<"RC", {5000}>>, <<"RD", {5000}>> >>
      [] message = "M3" ->
            << <<"RA", {1000}>>, <<"RB", {1000}>>, <<"RC", {1000}>>,
               <<"RD", {1000}>>, <<"RF", {1000}>> >>

\* the copies that may arrive next for a message: the next one of FeedOrder
NextCopies(message) ==
    LET n == IF message \in DOMAIN pending
             THEN Len(group_objs[pending[message]].copies) ELSE 0
    IN IF n < Len(FeedOrder(message))
       THEN {<<FeedOrder(message)[n + 1][1], t>> : t \in FeedOrder(message)[n + 1][2]}
       ELSE {}

\* the solver answers needed by the resolution of a group: one per cluster
OraclesFor(handle, unsynced) ==
    LET probe == Resolve(handle.group, group_objs[handle.group], aircraft,
                         blacklist, now, pseudorange_file, unsynced,
                         [i \in 1..(MaxCopies + 1) |-> <<"none", 0>>])
    IN [1..Len(probe.last.clusters) -> SolverOutcomes]

\* sleeping time (ticks) of the loop while callbacks are scheduled
TickSteps == {4}

\* times (ticks) from a resolution to the next message: 2.5 s to 118 s
IdleSteps == {5, 15, 25, 35, 235, 236}

\* time.time() minus the clock of the event loop (ticks) at a call of
\* receiver_mlat: the clocks agree, or the wall clock is 1000 s ahead
WallAhead == 2000

WallSkews == {0, WallAhead}

Feed(messages, skews) ==
    \E message \in messages : \E copy \in NextCopies(message) : \E skew \in skews :
        receiver_mlat(copy[1], copy[2] + ClockOffset(copy[1]), message, now + skew)

\* SIGHUP: the coordinator calls reopen_pseudoranges, which is registered as a
\* handler only when a file name was given
Reopen ==
    /\ Truthy(pseudorange_filename)
    /\ \E opens \in BOOLEAN : reopen_pseudoranges(opens)

\* the file name given to the constructor
PseudorangeFilenames == {None, Some(""), Some("pseudoranges.json")}

Loop ==
    \E handle \in timers : \E unsynced \in UnsyncedChoices :
        \E oracle \in OraclesFor(handle, unsynced) :
            resolve(handle, unsynced, oracle)

Init == TrackerInit({None}, PseudorangeFilenames) /\ ClusterIdle

Next ==
    \/ Feed(Messages, WallSkews)
    \/ Loop
    \/ \E step \in TickSteps : Tick(step)
    \/ Reopen

Spec == Init /\ [][Next]_vars

\* the event loop takes a due callback off its schedule; the steps of Next
\* that do so are the steps of Loop, and Loop is enabled whenever a callback
\* is due
RunsCallback ==
    \E handle \in timers : handle.when <= now /\ timers' = timers \ {handle}

\* the event loop keeps running: time advances to the next due callback and
\* a due callback is run
FairSpec ==
    /\ Spec
    /\ WF_timers(RunsCallback)
    /\ WF_vars(\E step \in TickSteps : Tick(step))

(***************************************************************************)
(* SpecPolicy: messages of one known aircraft, seconds or minutes apart.   *)
(***************************************************************************)
InitPolicy ==
    TrackerInit({None, Some(<< <<"\t", "e", " ", "\n">>, <<"c", "\n">> >>)},
                {None})
    /\ ClusterIdle

NextPolicy ==
    \/ Feed({"M1", "M2"}, WallSkews)
    \/ Loop
    \/ \E step \in TickSteps : Tick(step)
    \/ \E step \in IdleSteps : Idle(step)

SpecPolicy == InitPolicy /\ [][NextPolicy]_vars

(***************************************************************************)
(* SpecAccept: two messages of the known aircraft are pending together, so *)
(* that a resolution runs less than MLAT_DELAY - 0.5 s after a result.     *)
(***************************************************************************)
NextAccept ==
    \/ Feed({"M1", "M3"}, WallSkews)
    \/ Loop
    \/ \E step \in TickSteps : Tick(step)
    \/ \E step \in IdleSteps : Idle(step)

SpecAccept == InitPolicy /\ [][NextAccept]_vars

(***************************************************************************)
(* SpecBlacklist: the blacklist file is rewritten and reloaded while       *)
(* messages of the known aircraft are correlated.                          *)
(***************************************************************************)
InitBlacklist == TrackerInit(BlacklistFiles, {None}) /\ ClusterIdle

NextBlacklist ==
    \/ Feed({"M1"}, {WallAhead})
    \/ Loop
    \/ \E step \in TickSteps : Tick(step)
    \/ read_blacklist
    \/ \E file \in BlacklistFiles : WriteBlacklistFile(file)

SpecBlacklist == InitBlacklist /\ [][NextBlacklist]_vars

(***************************************************************************)
(* SpecCluster: _cluster_timestamps applied to bounded components.         *)
(***************************************************************************)
\* normalized timestamps (us) offered to the clustering
ClusterTimes == {0, 1000, 1070, 1150, 3070}

\* receivers that may carry two timestamps in one component
DoubleReceivers == {"RA"}

\* the receivers that contribute to the components
ClusterReceivers == {"RA", "RB", "RC", "RD", "RE"}

\* two dict orders of the receivers
ReceiverOrders == { <<"RA", "RB", "RC", "RD", "RE">>,
                    <<"RE", "RB", "RD", "RA", "RC">> }

SingleLists == {<<>>} \cup {<<t>> : t \in ClusterTimes}

DoubleLists ==
    SingleLists \cup
    {<<u[1], u[2]>> : u \in {v \in ClusterTimes \X ClusterTimes : v[1] <= v[2]}}

\* the timestamp lists of all receivers
TimestampMaps ==
    { [r \in ClusterReceivers |-> IF r \in DoubleReceivers THEN d[r] ELSE g[r]] :
        d \in [DoubleReceivers -> DoubleLists],
        g \in [ClusterReceivers \ DoubleReceivers -> SingleLists] }

RECURSIVE BuildComponent(_, _)
\* the dict with one item per receiver that has timestamps, in dict order
BuildComponent(order, f) ==
    IF order = <<>> THEN <<>>
    ELSE (IF f[Head(order)] = <<>> THEN <<>>
          ELSE << <<Head(order), NormVariance(Head(order)), f[Head(order)]>> >>)
         \o BuildComponent(Tail(order), f)

Components ==
    { BuildComponent(order, f) : order \in ReceiverOrders, f \in TimestampMaps }

InitCluster ==
    /\ min_rcv \in {3, 4}
    /\ component \in { c \in Components : Len(c) >= min_rcv }
    /\ clusters = <<>>
    /\ cpc = "call"
    /\ TrackerInit({None}, {None})

\* one call of _cluster_timestamps(component, min_receivers)
RunCluster ==
    /\ cpc = "call"
    /\ clusters' = cluster_timestamps(component, min_rcv)
    /\ cpc' = "returned"
    /\ UNCHANGED <<component, min_rcv, tvars>>

NextCluster == RunCluster

SpecCluster == InitCluster /\ [][NextCluster]_vars

(***************************************************************************)
(* SpecClusterWide: _cluster_timestamps applied to components in which     *)
(* every receiver may have heard two transmissions.                        *)
(***************************************************************************)
WideTimes == {1000, 1070, 5000}

WideReceivers == <<"RA", "RC", "RD", "RF">>

WideLists ==
    {<<>>} \cup {<<t>> : t \in WideTimes} \cup
    {<<u[1], u[2]>> : u \in {v \in WideTimes \X WideTimes : v[1] <= v[2]}}

WideComponents ==
    { BuildComponent(WideReceivers, f) :
        f \in [{WideReceivers[i] : i \in 1..Len(WideReceivers)} -> WideLists] }

InitClusterWide ==
    /\ min_rcv \in {3, 4}
    /\ component \in { c \in WideComponents : Len(c) >= min_rcv }
    /\ clusters = <<>>
    /\ cpc = "call"
    /\ TrackerInit({None}, {None})

SpecClusterWide == InitClusterWide /\ [][NextCluster]_vars

(***************************************************************************)
(* Properties of the clusters returned by _cluster_timestamps.             *)
(***************************************************************************)
Returned == cpc = "returned"

Indices(s) == 1..Len(s)

\* the members of a returned cluster <<distinct, members>>
Members(c) == c[2]

\* the (receiver, timestamp, variance) entries of a component, as a list
Entries(comp) == Flatten(comp)

Feasible(e1, e2) == ~TooFarApart(e1[2], e2[2], Distance(e1[1], e2[1]))

\* C4: in every returned cluster every pair of members (r1,t1), (r2,t2)
\* satisfies |t1 - t2| <= (distance(r1,r2) * 1.05 + 1000) / Cair.
C4_PairwiseFeasible ==
    Returned =>
        \A k \in Indices(clusters) :
            \A i, j \in Indices(Members(clusters[k])) :
                Feasible(Members(clusters[k])[i], Members(clusters[k])[j])

\* a returned cluster of three or more members whose timestamps are not all
\* equal, one of them having been refused although the seed allowed it
C4_Witness ==
    /\ Returned
    /\ \E k \in Indices(clusters) :
          LET m == Members(clusters[k])
              seed == m[Len(m)]
          IN /\ Len(m) >= 3
             /\ \E i, j \in Indices(m) : m[i][2] # m[j][2]
             /\ \E e \in {Entries(component)[x] : x \in Indices(Entries(component))} :
                   /\ \A i \in Indices(m) : m[i][1] # e[1]
                   /\ ~MoreThanTwoMs(seed[2], e[2]) /\ e[2] <= seed[2]
                   /\ Feasible(e, seed)
                   /\ \E i \in Indices(m) : ~Feasible(e, m[i])

\* C5: no returned cluster contains two entries from the same receiver.
C5_NoDuplicateReceiver ==
    Returned =>
        \A k \in Indices(clusters) :
            \A i, j \in Indices(Members(clusters[k])) :
                i # j => Members(clusters[k])[i][1] # Members(clusters[k])[j][1]

\* a receiver with two timestamps, both feasible against every member of a
\* returned cluster that holds one of them
C5_Witness ==
    /\ Returned
    /\ \E x \in Indices(component) :
          /\ Len(component[x][3]) = 2
          /\ \E k \in Indices(clusters) :
                LET m == Members(clusters[k]) IN
                /\ \E i \in Indices(m) : m[i][1] = component[x][1]
                /\ \A i \in Indices(m) : \A y \in 1..2 :
                      m[i][1] # component[x][1] =>
                        Feasible(<<component[x][1], component[x][3][y], 0>>, m[i])
                /\ \A i \in Indices(m) : \A y \in 1..2 :
                      ~MoreThanTwoMs(m[Len(m)][2], component[x][3][y])

\* the members in the order they were accepted (seed first)
Accepted(c) == Reverse(Members(c))

\* 1 for the seed, plus one for every member that is at least 1 km from
\* every member accepted before it
CountedDistinct(acc) ==
    {i \in Indices(acc) :
        \A j \in 1..(i - 1) : Distance(acc[i][1], acc[j][1]) >= NearMetres}

\* C6: the distinct count of a returned cluster is at most its number of
\* receivers; a member less than 1 km from a member accepted earlier does not
\* add to it, so the counted members are pairwise at least 1 km apart.
C6_DistinctCount ==
    Returned =>
        \A k \in Indices(clusters) :
            LET acc == Accepted(clusters[k])
                counted == CountedDistinct(acc)
            IN /\ clusters[k][1] <= Cardinality({acc[i][1] : i \in Indices(acc)})
               /\ clusters[k][1] = Cardinality(counted)
               /\ \A i, j \in counted :
                     i # j => Distance(acc[i][1], acc[j][1]) >= NearMetres

\* a returned cluster holding the two receivers that are 500 m apart, whose
\* distinct count is one less than its size
C6_Witness ==
    /\ Returned
    /\ \E k \in Indices(clusters) :
          LET m == Members(clusters[k]) IN
          /\ \E i, j \in Indices(m) : m[i][1] = "RA" /\ m[j][1] = "RB"
          /\ clusters[k][1] = Len(m) - 1
          /\ \E i \in 2..(Len(m) - 1) : m[i][1] \in {"RA", "RB"}

\* the positions <<x, y>> of the entries of a component: timestamp y of item x
EntryPositions(comp) ==
    {p \in Indices(comp) \X (1..2) : p[2] <= Len(comp[p[1]][3])}

EntryAt(comp, p) == <<comp[p[1]][1], comp[p[1]][3][p[2]], comp[p[1]][2]>>

\* the component without the entry at position p
RemoveEntry(comp, p) ==
    IF Len(comp[p[1]][3]) = 1 THEN RemoveAt(comp, p[1])
    ELSE [comp EXCEPT ![p[1]][3] = RemoveAt(@, p[2])]

\* the entry at p violates the propagation-delay bound against every other
\* entry of the component
Outlier(comp, p) ==
    \A q \in EntryPositions(comp) \ {p} : ~Feasible(EntryAt(comp, p), EntryAt(comp, q))

ClusterSet(cs) == {cs[k] : k \in Indices(cs)}

\* the entries other than p are from receivers pairwise at least 1 km apart,
\* within 1 ms of each other and pairwise within the propagation-delay bound
Consistent(comp, p) ==
    \A q1, q2 \in EntryPositions(comp) \ {p} :
        q1 # q2 =>
            /\ Distance(EntryAt(comp, q1)[1], EntryAt(comp, q2)[1]) >= NearMetres
            /\ Abs(EntryAt(comp, q1)[2] - EntryAt(comp, q2)[2]) <= 1000
            /\ Feasible(EntryAt(comp, q1), EntryAt(comp, q2))

\* C9: an entry that violates the propagation-delay bound against every other
\* entry of its component is in no returned cluster, and the clusters formed
\* are those formed from the component without it; with 5 receivers, one of
\* them such an outlier and the other 4 consistent, the result is one cluster
\* of the other 4 with distinct count 4.
C9_OutlierExcluded ==
    Returned =>
        \A p \in EntryPositions(component) :
            Outlier(component, p) =>
                /\ \A k \in Indices(clusters) :
                      \A i \in Indices(Members(clusters[k])) :
                          Members(clusters[k])[i] # EntryAt(component, p)
                /\ ClusterSet(clusters) =
                   ClusterSet(cluster_timestamps(RemoveEntry(component, p), min_rcv))
                /\ (Len(Entries(component)) = 5 /\ Consistent(component, p)) =>
                      /\ Len(clusters) = 1
                      /\ clusters[1][1] = 4
                      /\ Members(clusters[1]) =
                         StableSort(Entries(RemoveEntry(component, p)), 2)

\* an outlier later than every member of a returned cluster and within 2 ms
\* of all of them: it was a seed and examined every one of them
C9_Witness ==
    /\ Returned
    /\ \E p \in EntryPositions(component) :
          /\ Outlier(component, p)
          /\ \E k \in Indices(clusters) :
                LET m == Members(clusters[k])
                    t == EntryAt(component, p)[2]
                IN /\ m[Len(m)][2] < t
                   /\ ~MoreThanTwoMs(t, m[1][2])

\* five receivers, one of them an outlier, the other four in one cluster
C9_WitnessFive ==
    /\ Returned
    /\ Len(Entries(component)) = 5
    /\ \E p \in EntryPositions(component) :
          Outlier(component, p) /\ Consistent(component, p)
    /\ Len(clusters) = 1

(***************************************************************************)
(* Properties of the tracker (Spec).                                       *)
(***************************************************************************)
\* the scheduled callback of group g runs in this step
Fires(g) == g \in DOMAIN fires /\ fires'[g] = fires[g] + 1

\* the groups that have a scheduled callback
Scheduled(tms) == {h.group : h \in tms}

\* the groups held by the table
Held(pend) == {pend[m] : m \in DOMAIN pend}

\* C3: a group that holds fewer than 3 copies when its resolution fires
\* produces no output: no output handler and no smoother update, the
\* normalizer and the solver are not called, no aircraft field changes
C3_FewCopiesNoOutput ==
    [][\A g \in DOMAIN fires :
          (Fires(g) /\ Len(group_objs[g].copies) < 3)
             => /\ aircraft' = aircraft
                /\ last'.gid = g
                /\ last'.handler_calls = <<>>
                /\ last'.kalman_updates = <<>>
                /\ last'.solver_calls = <<>>
                /\ last'.normalize_calls = 0]_vars

\* a group with two copies of a well-formed message of the known aircraft
\* has been resolved, and the aircraft has still no altitude
C3_Witness ==
    /\ last.gid # 0
    /\ last.message = "M1"
    /\ last.copies = 2
    /\ last.handler_calls = <<>>
    /\ aircraft["A1"].altitude = None

\* C2: when a group's resolution fires its entry was in the table and is
\* removed, whatever path the resolution takes; no two live groups hold the
\* same message; a resolved group is never in the table nor scheduled again
C2_EntryRemoved ==
    /\ [][\A g \in DOMAIN fires :
            Fires(g) => /\ group_objs[g].message \in DOMAIN pending
                        /\ pending[group_objs[g].message] = g
                        /\ group_objs[g].message \notin DOMAIN pending'
                        /\ last'.gid = g
                        /\ last'.exception # "KeyError"
                        /\ g \notin Scheduled(timers')]_vars
    /\ [](\A g \in DOMAIN group_objs : \A h \in DOMAIN group_objs :
            group_objs[g].message = group_objs[h].message => g = h)
    /\ [](\A g \in DOMAIN fires :
            fires[g] >= 1 => g \notin Held(pending) \cup Scheduled(timers))

\* a second group of a message is pending after the first one was resolved
\* without an accepted result
C2_Witness ==
    /\ last.gid = 1
    /\ last.outcome = "no_result"
    /\ fires[1] = 1
    /\ last.message \in DOMAIN pending
    /\ pending[last.message] = 2
    /\ 1 \notin DOMAIN group_objs

\* C10: when the decoder fails on the message of a group (and likewise when
\* the decoded address is not a known aircraft) the resolution is a silent
\* no-op: no exception leaves _resolve, the entry is removed, no aircraft
\* state changes and nothing is output
C10_SilentNoOp ==
    [][\A g \in DOMAIN fires :
          (/\ Fires(g)
           /\ Len(group_objs[g].copies) >= 3
           /\ \/ decode(group_objs[g].message) = None
              \/ decode(group_objs[g].message)[1].address \notin DOMAIN aircraft)
             => /\ last'.exception = "none"
                /\ group_objs[g].message \notin DOMAIN pending'
                /\ aircraft' = aircraft
                /\ last'.handler_calls = <<>>
                /\ last'.kalman_updates = <<>>]_vars

\* the part of C10 that the code keeps: an unknown address is a silent no-op
C10_UnknownAircraftNoOp ==
    [][\A g \in DOMAIN fires :
          (/\ Fires(g)
           /\ Len(group_objs[g].copies) >= 3
           /\ decode(group_objs[g].message) # None
           /\ decode(group_objs[g].message)[1].address \notin DOMAIN aircraft)
             => /\ last'.exception = "none"
                /\ group_objs[g].message \notin DOMAIN pending'
                /\ aircraft' = aircraft
                /\ last'.handler_calls = <<>>
                /\ last'.kalman_updates = <<>>]_vars

\* the scheduled callback of group g has run exactly once
FiredOnce(g) == g \in DOMAIN fires /\ fires[g] = 1

\* the step records the first copy of a message: a new group is created
Creates(g) == g \notin DOMAIN fires /\ g \in DOMAIN fires'

\* the step records a further copy in the pending group g
Appends(g) ==
    /\ g \in DOMAIN group_objs
    /\ g \in DOMAIN group_objs'
    /\ group_objs'[g].copies # group_objs[g].copies

\* C1: the first copy of a message creates one group and schedules exactly
\* one resolution MLAT_DELAY after it; a further copy is appended to the same
\* group and no timer is scheduled, rescheduled or cancelled; the
\* resolution of every group fires exactly once
C1_ExactlyOnce ==
    /\ [][\A g \in GroupIds :
            Creates(g) =>
               /\ \E m \in Messages :
                     /\ m \notin DOMAIN pending
                     /\ pending' = pending @@ (m :> g)
                     /\ group_objs'[g].message = m
               /\ group_objs'[g].handle = [when |-> now + MLAT_DELAY, group |-> g]
               /\ Len(group_objs'[g].copies) = 1
               /\ timers \subseteq timers'
               /\ timers' \ timers = {[when |-> now + MLAT_DELAY, group |-> g]}
               /\ \A h \in DOMAIN group_objs : group_objs'[h] = group_objs[h]]_vars
    /\ [][\A g \in GroupIds :
            Appends(g) =>
               /\ pending' = pending
               /\ pending[group_objs[g].message] = g
               /\ Len(group_objs'[g].copies) = Len(group_objs[g].copies) + 1
               /\ SubSeq(group_objs'[g].copies, 1, Len(group_objs[g].copies))
                     = group_objs[g].copies
               /\ timers' = timers
               /\ fires' = fires]_vars
    /\ [][\A g \in GroupIds :
            Fires(g) => /\ g \in DOMAIN group_objs
                        /\ now = group_objs[g].handle.when]_vars
    /\ [](\A g \in DOMAIN fires :
            /\ fires[g] <= 1
            /\ Cardinality({h \in timers : h.group = g}) = 1 - fires[g])
    /\ \A g \in GroupIds : (g \in DOMAIN fires) ~> FiredOnce(g)

\* a group that received four copies has been resolved once, MLAT_DELAY
\* after its first copy, and is no longer scheduled
C1_Witness ==
    /\ last.gid # 0
    /\ fires[last.gid] = 1
    /\ last.copies = 4
    /\ last.now = MLAT_DELAY
    /\ last.gid \notin Scheduled(timers)

(***************************************************************************)
(* Properties of the acceptance policy (SpecPolicy).                       *)
(***************************************************************************)
\* the aircraft has an accepted result
HasResult(ac) == ac.last_result_position # None

\* the solver returned an estimate whose variance is within the threshold
\* (sqrt(variance) <= 10 km; an estimate without covariance counts as 100e6)
GoodEstimate(call) ==
    /\ call.returned # None
    /\ \/ call.returned[1].ecef_cov = None
       \/ call.returned[1].ecef_cov[1] <= 100

\* the distinct count of the cluster the solver was called on
DistinctOf(cs, cluster) ==
    LET k == CHOOSE j \in Indices(cs) : StableSort(cs[j][2], 2) = cluster
    IN cs[k][1]

\* C7: with a last accepted result of distinct count n, a resolution that
\* runs less than 10 s (20 ticks) after it never commits a result with a
\* distinct count below n; a resolution that runs 15 s to 120 s after it and
\* whose clusters all have a distinct count below n commits the first
\* cluster for which the solver returns an estimate within the variance
\* threshold, and commits nothing only if the solver fails on all of them
C7_RateLimit ==
    [][\A g \in DOMAIN fires :
          (Fires(g) /\ HasResult(aircraft["A1"])) =>
             LET ac == aircraft["A1"]
                 n == ac.last_result_distinct[1]
                 since == now - ac.last_result_time[1]
                 calls == last'.solver_calls
             IN /\ (since < 20 /\ last'.handler_calls # <<>>)
                      => aircraft'["A1"].last_result_distinct[1] >= n
                /\ (/\ since >= 30
                    /\ since <= 240
                    /\ last'.clusters # <<>>
                    /\ \A k \in Indices(last'.clusters) :
                          last'.clusters[k][1] < n)
                      => /\ (last'.handler_calls # <<>>)
                               <=> (\E i \in Indices(calls) : GoodEstimate(calls[i]))
                         /\ \A i \in Indices(calls) :
                               GoodEstimate(calls[i]) => i = Len(calls)
                         /\ last'.handler_calls = <<>>
                               => Len(calls) = Len(last'.clusters)
                         /\ last'.handler_calls # <<>>
                               => /\ aircraft'["A1"].last_result_time = Some(now)
                                  /\ aircraft'["A1"].last_result_distinct =
                                        Some(DistinctOf(last'.clusters,
                                                        calls[Len(calls)].cluster))
                                  /\ aircraft'["A1"].last_result_distinct[1] < n]_vars

\* the instance of the rate limit: last result of distinct count 5, then a
\* cluster of distinct count 4 is accepted 20 s (40 ticks) later
C7_Witness ==
    /\ last.gid # 0
    /\ last.last_result_distinct = 5
    /\ last.elapsed = 40
    /\ last.handler_calls # <<>>
    /\ aircraft["A1"].last_result_distinct = Some(4)
    /\ aircraft["A1"].last_result_time = Some(now)

\* ... and rejected 5 s (10 ticks) later, with five receivers in the group
C7_WitnessRejected ==
    /\ last.gid # 0
    /\ last.last_result_distinct = 5
    /\ last.elapsed = 10
    /\ Len(last.timestamp_map) = 5
    /\ Len(last.clusters) = 1
    /\ last.clusters[1][1] = 4
    /\ last.handler_calls = <<>>
    /\ aircraft["A1"].last_result_distinct = Some(5)

\* ... and with two clusters the second is committed when the solver fails
\* on the first
C7_WitnessSecondCluster ==
    /\ last.gid # 0
    /\ last.elapsed >= 30
    /\ last.last_result_distinct > 3
    /\ Len(last.clusters) = 2
    /\ Len(last.solver_calls) = 2
    /\ last.handler_calls # <<>>

\* the entries <<receiver, timestamp, variance>> of the report's components
ReportEntries == IF last.components = <<>> THEN <<>>
                 ELSE Flatten(last.components[1])

\* the receivers of the non-blacklisted copies are k >= min_receivers
\* receivers pairwise at least 1 km apart, one timestamp each, all in one
\* component, within 1 ms (1000 us) of each other and pairwise feasible
ConsistentCopies ==
    LET map == last.timestamp_map
        es == ReportEntries
    IN /\ Len(map) >= last.min_receivers
       /\ \A i \in Indices(map) : Len(map[i][2]) = 1
       /\ \A i \in Indices(map) : \A j \in Indices(map) :
             i # j => Distance(map[i][1], map[j][1]) >= 1000
       /\ Len(last.components) = 1
       /\ Len(es) = Len(map)
       /\ \A i \in Indices(es) : \A j \in Indices(es) :
             /\ Abs(es[i][2] - es[j][2]) <= 1000
             /\ Feasible(es[i], es[j])

\* no rate-limit or hysteresis rule stops a resolution of k receivers
NoRuleApplies(k) ==
    /\ ~RateLimited(last.elapsed, k, last.last_result_distinct)
    /\ ~RejectFewer(last.elapsed, k, last.last_result_distinct)
    /\ ~RejectSame(last.elapsed, k, last.last_result_distinct)

\* C8: when the non-blacklisted copies of a group come from k >=
\* min_receivers receivers pairwise at least 1 km apart, one timestamp
\* each, in one component, within 1 ms and pairwise feasible, and no
\* rate-limit or hysteresis rule applies, the resolution produces exactly
\* one cluster of all k entries with distinct count k and the solver is
\* invoked exactly once, on that cluster
C8_OneClusterOneSolve ==
    (/\ last.gid # 0
     /\ last.min_receivers # 0
     /\ ConsistentCopies
     /\ NoRuleApplies(Len(last.timestamp_map)))
       => /\ Len(last.clusters) = 1
          /\ last.clusters[1][1] = Len(last.timestamp_map)
          /\ {Members(last.clusters[1])[i] : i \in Indices(Members(last.clusters[1]))}
                = {ReportEntries[i] : i \in Indices(ReportEntries)}
          /\ Len(Members(last.clusters[1])) = Len(last.timestamp_map)
          /\ Len(last.solver_calls) = 1
          /\ last.solver_calls[1].cluster = StableSort(Members(last.clusters[1]), 2)

\* four receivers hear the message at the same time: one cluster of
\* distinct count 4, one call of the solver with the four entries
C8_Witness ==
    /\ last.gid # 0
    /\ ConsistentCopies
    /\ NoRuleApplies(4)
    /\ {last.timestamp_map[i][1] : i \in Indices(last.timestamp_map)}
          = {"RA", "RC", "RD", "RE"}
    /\ Len(last.solver_calls) = 1
    /\ Len(last.solver_calls[1].cluster) = 4
    /\ last.clusters[1][1] = 4

(***************************************************************************)
(* Solver outcomes and the pseudorange record (Spec).                      *)
(***************************************************************************)
\* the result committed by the step is an estimate without covariance
CommitsWithoutCovariance ==
    /\ last'.handler_calls # <<>>
    /\ last'.handler_calls[1].args.ecef_cov = None

\* C11: whatever the solver returns (no estimate, an estimate with or
\* without covariance) and whether the pseudorange file is open or not, no
\* exception leaves _resolve; an estimate without covariance gets the
\* variance 100e6 and goes through commit, smoother, output handlers and,
\* when the file is open, the pseudorange record like any other result
C11_RunsToCompletion ==
    [][\A g \in DOMAIN fires :
          (Fires(g) /\ last'.solver_calls # <<>>)
             => /\ last'.exception = "none"
                /\ CommitsWithoutCovariance
                      => /\ aircraft'["A1"].last_result_var = Some(100)
                         /\ Len(last'.kalman_updates) = 1
                         /\ Len(last'.handler_calls) = Len(OutputHandlers)
                         /\ pseudorange_file
                               => Len(last'.pseudorange_records) = 1]_vars

\* the part of C11 that the code keeps: the same with the file closed
C11_FileClosed ==
    [][\A g \in DOMAIN fires :
          (Fires(g) /\ last'.solver_calls # <<>> /\ ~pseudorange_file)
             => /\ last'.exception = "none"
                /\ CommitsWithoutCovariance
                      => /\ aircraft'["A1"].last_result_var = Some(100)
                         /\ Len(last'.kalman_updates) = 1
                         /\ Len(last'.handler_calls) = Len(OutputHandlers)]_vars

(***************************************************************************)
(* Properties of the blacklist (SpecBlacklist).                            *)
(***************************************************************************)
\* the first line of mlat-blacklist.txt; empty when there is no file or line
FirstLine ==
    IF blacklist_file = None THEN <<>>
    ELSE IF blacklist_file[1] = <<>> THEN <<>>
    ELSE blacklist_file[1][1]

\* u is line without its leading and trailing whitespace, and is not empty
TrimmedFrom(u, line) ==
    \E i \in Indices(line) : \E j \in i..Len(line) :
        /\ u = SubSeq(line, i, j)
        /\ line[i] \notin Whitespace
        /\ line[j] \notin Whitespace
        /\ \A k \in Indices(line) : (k < i \/ k > j) => line[k] \in Whitespace

\* C12: over an unchanged file every reload stores the set the first load
\* stored; the set holds at most one identity, the trimmed first line of
\* the file when that is not empty; a missing file gives the empty set
C12_ReloadIdempotent ==
    /\ \A i \in Indices(reloads) : reloads[i] = reloads[1]
    /\ Cardinality(blacklist) <= 1
    /\ reloads # <<>> =>
          /\ blacklist = reloads[Len(reloads)]
          /\ blacklist_file = None => blacklist = {}
          /\ \A u \in blacklist : TrimmedFrom(u, FirstLine)
          /\ (\E k \in Indices(FirstLine) : FirstLine[k] \notin Whitespace)
                => blacklist # {}

\* the file was replaced by one of two lines and loaded three times: the
\* set is the trimmed first line, the second line is not read
C12_Witness ==
    /\ Len(reloads) = 3
    /\ blacklist_file # None
    /\ Len(blacklist_file[1]) = 2
    /\ FirstLine = <<"\t", "e", " ", "\n">>
    /\ blacklist = {<<"e">>}

\* the file was removed and the blacklist reloaded twice: the set is empty
C12_WitnessMissing ==
    /\ Len(reloads) = 2
    /\ blacklist_file = None
    /\ blacklist = {}
    /\ last.gid # 0

\* ---------------------------------------------------------------------
\* C13: the receiver quorum

\* a run of _resolve that reached the altitude step
ReachedQuorum == last.gid # 0 /\ last.min_receivers # 0

\* the altitude error in feet at the latest resolution: 250 ft plus 70 ft
\* per second (35 ft per tick) since the altitude was last observed
AltitudeErrorFeet ==
    250 + (last.now - aircraft["A1"].last_altitude_time[1]) * 35

\* C13: min_receivers is 3 only when the aircraft's altitude is known and
\* its altitude error, 250 ft plus 70 ft per second since the altitude was
\* last observed, is under 1000 ft; in every other case it is 4
C13_QuorumUnderThousandFeet ==
    ReachedQuorum =>
        last.min_receivers =
            IF aircraft["A1"].altitude # None /\ AltitudeErrorFeet < 1000
            THEN 3 ELSE 4

\* what the code computes: the error is converted to metres and compared
\* with the bare number 1000, so the quorum is 3 while the error in feet
\* times FTOM is under 1000
C13_QuorumUnderThousandMetres ==
    ReachedQuorum =>
        last.min_receivers =
            IF /\ aircraft["A1"].altitude # None
               /\ AltitudeErrorFeet * FtomE4 < 1000 * 10000
            THEN 3 ELSE 4

\* a resolution with an altitude error of 1000 ft or more and a quorum of 3
C13_WitnessStale ==
    /\ ReachedQuorum
    /\ aircraft["A1"].altitude # None
    /\ AltitudeErrorFeet >= 1000
    /\ last.min_receivers = 3
    /\ last.outcome = "accepted"


\* ---------------------------------------------------------------------
\* C14: the 2 ms cutoff of the backward scan

\* the entries of the component in the order the scan walks them backward
SortedEntries == StableSort(Flatten(component), 2)

\* the seed of the first scan over the last rough group
FirstSeed == SortedEntries[Len(SortedEntries)]

\* no other entry has the receiver and timestamp of the first seed
FirstSeedUnique ==
    \A i \in 1..(Len(SortedEntries) - 1) : SortedEntries[i] # FirstSeed

\* the returned clusters built from the first seed
SeedClusters ==
    {k \in Indices(clusters) :
        Members(clusters[k])[Len(Members(clusters[k]))] = FirstSeed}

IsMember(e, k) == \E i \in Indices(Members(clusters[k])) : Members(clusters[k])[i] = e

\* the candidate is refused by the strict test against a member of cluster k
Refused(e, k) ==
    \E i \in Indices(Members(clusters[k])) :
        \/ Members(clusters[k])[i][1] = e[1]
        \/ ~Feasible(e, Members(clusters[k])[i])

\* the timestamp of the member of cluster k accepted last before the scan
\* reached SortedEntries[i]
LastAcceptedTime(i, k) ==
    LET later == {j \in (i + 1)..Len(SortedEntries) : IsMember(SortedEntries[j], k)}
    IN SortedEntries[CHOOSE j \in later : \A j2 \in later : j <= j2][2]

\* C14 as stated: the scan stops at the first candidate more than 2 ms
\* earlier than the most recently accepted member (the seed when none was
\* accepted yet), and a candidate within 2 ms of the most recently accepted
\* member is still considered: if it is not in the cluster, the strict test
\* refused it
C14_CutoffFromLastAccepted ==
    (Returned /\ FirstSeedUnique) =>
        \A k \in SeedClusters :
            \A i \in 1..(Len(SortedEntries) - 1) :
                (/\ ~IsMember(SortedEntries[i], k)
                 /\ ~MoreThanTwoMs(LastAcceptedTime(i, k), SortedEntries[i][2]))
                => Refused(SortedEntries[i], k)

\* C14 amended: the scan stops at the first candidate more than 2 ms earlier
\* than the seed, so every member of a returned cluster is within 2 ms of
\* the cluster's latest member; a candidate within 2 ms of the seed is still
\* considered: if it is not in the cluster, the strict test refused it
C14_CutoffFromSeed ==
    Returned =>
        /\ \A k \in Indices(clusters) :
              LET m == Members(clusters[k])
              IN \A i \in Indices(m) : ~MoreThanTwoMs(m[Len(m)][2], m[i][2])
        /\ FirstSeedUnique =>
              \A k \in SeedClusters :
                  \A i \in 1..(Len(SortedEntries) - 1) :
                      (/\ ~IsMember(SortedEntries[i], k)
                       /\ ~MoreThanTwoMs(FirstSeed[2], SortedEntries[i][2]))
                      => Refused(SortedEntries[i], k)

\* a returned cluster and an entry more than 2 ms earlier than its seed,
\* within 2 ms of the member accepted last, that no member refuses
C14_Witness ==
    /\ Returned
    /\ FirstSeedUnique
    /\ \E k \in SeedClusters :
          \E i \in 1..(Len(SortedEntries) - 1) :
              /\ ~IsMember(SortedEntries[i], k)
              /\ MoreThanTwoMs(FirstSeed[2], SortedEntries[i][2])
              /\ ~MoreThanTwoMs(LastAcceptedTime(i, k), SortedEntries[i][2])
              /\ ~Refused(SortedEntries[i], k)


\* ---------------------------------------------------------------------
\* C15: the acceptance loop stops at a cluster it may not accept

\* the clusters of the latest resolution in the order the loop pops them
PopOrder(rep) == Reverse(StableSort(rep.clusters, 1))

\* the loop may not accept a cluster of this distinct count: equal to the
\* last result's less than MLAT_DELAY - 0.5 s after it, or below it less than
\* 10 s after it
MayNotAccept(rep, distinct) ==
    \/ /\ rep.elapsed < MLAT_DELAY - 1
       /\ distinct = rep.last_result_distinct
    \/ /\ rep.elapsed < AcceptFewer
       /\ distinct < rep.last_result_distinct

LastResult(ac) ==
    <<ac.last_result_position, ac.last_result_var, ac.last_result_distinct,
      ac.last_result_time>>

\* C15: when the largest remaining cluster has a distinct count equal to the
\* last accepted result's and less than MLAT_DELAY - 0.5 s have elapsed (or a
\* count below it and less than 10 s), the loop stops: the solver is invoked
\* neither for that cluster nor for a smaller one, and when the loop reaches
\* it without a result nothing is committed.  Hence of two consecutive
\* accepted results less than MLAT_DELAY - 0.5 s apart the later has strictly
\* more distinct receivers.
C15_LoopStops ==
    [][\A g \in DOMAIN fires :
          Fires(g) =>
             LET rep == last'
                 order == PopOrder(rep)
                 n == Len(rep.solver_calls)
                 ac == aircraft["A1"]
             IN /\ \A j \in Indices(order) :
                      MayNotAccept(rep, order[j][1]) =>
                          /\ n < j
                          /\ \A i \in Indices(rep.solver_calls) :
                                rep.solver_calls[i].cluster
                                    # StableSort(order[j][2], 2)
                          /\ (n = j - 1 /\ rep.outcome # "accepted") =>
                                /\ LastResult(aircraft'["A1"]) = LastResult(ac)
                                /\ rep.kalman_updates = <<>>
                                /\ rep.handler_calls = <<>>
                /\ (order # <<>> /\ MayNotAccept(rep, order[1][1])) =>
                      /\ n = 0
                      /\ rep.outcome = "no_result"
                      /\ LastResult(aircraft'["A1"]) = LastResult(ac)
                /\ (/\ HasResult(ac)
                    /\ rep.outcome = "accepted"
                    /\ now - ac.last_result_time[1] < MLAT_DELAY - 1)
                      => aircraft'["A1"].last_result_distinct[1]
                            > ac.last_result_distinct[1]]_vars

\* a resolution right after a result of 3 distinct receivers: four receivers
\* answered, their one cluster counts 3 distinct receivers, the solver is
\* not asked and the last result stays
C15_Witness ==
    /\ last.gid # 0
    /\ last.elapsed < MLAT_DELAY - 1
    /\ last.last_result_distinct = 3
    /\ Len(last.timestamp_map) = 4
    /\ Len(last.clusters) = 1
    /\ last.clusters[1][1] = 3
    /\ last.solver_calls = <<>>
    /\ last.outcome = "no_result"
    /\ aircraft["A1"].last_result_distinct = Some(3)

\* two accepted results less than MLAT_DELAY - 0.5 s apart: 3 distinct
\* receivers, then 4
C15_WitnessMore ==
    /\ last.gid # 0
    /\ last.elapsed < MLAT_DELAY - 1
    /\ last.last_result_distinct = 3
    /\ last.outcome = "accepted"
    /\ aircraft["A1"].last_result_distinct = Some(4)


\* ---------------------------------------------------------------------
\* C16: the state refresh

\* the group has at least 3 copies and its message decodes to a known aircraft
RefreshDue(g) ==
    /\ Len(group_objs[g].copies) >= 3
    /\ decode(group_objs[g].message) # None
    /\ decode(group_objs[g].message)[1].address \in DOMAIN aircraft

\* the field of the aircraft after the resolution: the value the message
\* carries, or the old value when the message carries none
Written(carried, old, new) == new = IF carried # None THEN carried ELSE old

\* C16: for a group with at least 3 copies whose decoded aircraft is known,
\* the altitude (with its update time), squawk and callsign carried by the
\* message are written to the aircraft on every path; and when no cluster
\* is accepted these are the only changes: the four last_result fields are
\* unchanged, the track smoother is not updated and no output handler runs
C16_RefreshOnEveryPath ==
    [][\A g \in DOMAIN fires :
          (Fires(g) /\ RefreshDue(g)) =>
             LET decoded == decode(group_objs[g].message)[1]
                 old == aircraft[decoded.address]
                 new == aircraft'[decoded.address]
             IN /\ Written(decoded.altitude, old.altitude, new.altitude)
                /\ Written(IF decoded.altitude # None THEN Some(now) ELSE None,
                           old.last_altitude_time, new.last_altitude_time)
                /\ Written(decoded.squawk, old.squawk, new.squawk)
                /\ Written(decoded.callsign, old.callsign, new.callsign)
                /\ \A a \in DOMAIN aircraft \ {decoded.address} :
                      aircraft'[a] = aircraft[a]
                /\ last'.outcome # "accepted" =>
                      /\ LastResult(new) = LastResult(old)
                      /\ last'.kalman_updates = <<>>
                      /\ last'.handler_calls = <<>>
                      /\ last'.pseudorange_records = <<>>]_vars

\* a resolution stopped by the rate limit that has written the squawk and
\* the callsign of its message and kept the last result
C16_Witness ==
    /\ last.gid # 0
    /\ last.message = "M2"
    /\ last.outcome = "ratelimit"
    /\ aircraft["A1"].squawk = Some("7000")
    /\ aircraft["A1"].callsign = Some("CALL")
    /\ aircraft["A1"].altitude = Some(10025)
    /\ HasResult(aircraft["A1"])

\* ... stopped for too few receivers
C16_WitnessFewReceivers ==
    /\ last.gid # 0
    /\ last.message = "M2"
    /\ last.outcome = "few_receivers"
    /\ aircraft["A1"].squawk = Some("7000")

\* ... stopped for want of a cluster
C16_WitnessNoClusters ==
    /\ last.gid # 0
    /\ last.outcome = "no_clusters"
    /\ last.now > 0
    /\ aircraft["A1"].last_altitude_time = Some(last.now)

\* ... stopped for want of an accepted result
C16_WitnessNoResult ==
    /\ last.gid # 0
    /\ last.outcome = "no_result"
    /\ last.solver_calls # <<>>
    /\ aircraft["A1"].last_altitude_time = Some(last.now)


\* ---------------------------------------------------------------------
\* C17: blacklisted receivers take no part in a resolution

RECURSIVE ReceiversOf(_)
\* the receivers of a list of items or entries <<receiver, ...>>
ReceiversOf(items) ==
    IF items = <<>> THEN {}
    ELSE {Head(items)[1]} \cup ReceiversOf(Tail(items))

\* the receivers that take part in the resolution reported by rep: those of
\* the timestamp map, of the normalized components, of the clusters, of the
\* solver inputs, of the smoother update and of the handlers' receiver lists
Contributors(rep) ==
    ReceiversOf(rep.timestamp_map)
    \cup UNION {ReceiversOf(rep.components[i]) : i \in Indices(rep.components)}
    \cup UNION {ReceiversOf(rep.clusters[i][2]) : i \in Indices(rep.clusters)}
    \cup UNION {ReceiversOf(rep.solver_calls[i].cluster) :
                   i \in Indices(rep.solver_calls)}
    \cup UNION {ReceiversOf(rep.kalman_updates[i].cluster) :
                   i \in Indices(rep.kalman_updates)}
    \cup UNION {{rep.handler_calls[i].args.receivers[j] :
                    j \in Indices(rep.handler_calls[i].args.receivers)} :
                   i \in Indices(rep.handler_calls)}

\* the receivers of the group's copies whose operator is not blacklisted
Remaining(g) ==
    {r \in ReceiversOf(group_objs[g].copies) : User(r) \notin blacklist}

\* C17: no receiver whose operator identity is in the blacklist when the
\* resolution runs contributes to the timestamp map, to a cluster, to the
\* solver input or to the receiver list given to the output handlers, even
\* if its copies were recorded before the blacklist was loaded; the
\* min_receivers check counts the receivers that remain
C17_BlacklistedExcluded ==
    [][\A g \in DOMAIN fires :
          (Fires(g) /\ RefreshDue(g)) =>
              /\ \A r \in Contributors(last') : User(r) \notin blacklist
              /\ ReceiversOf(last'.timestamp_map) = Remaining(g)
              /\ (last'.outcome = "few_receivers")
                    <=> (Cardinality(Remaining(g)) < last'.min_receivers)]_vars

\* an accepted result of a group that held the copy of RC when a load put
\* the operator of RC on the blacklist: RC is not among the handlers' receivers
C17_Witness ==
    /\ last.gid # 0
    /\ last.gid \in recorded_before_load
    /\ blacklist = {<<"c">>}
    /\ last.outcome = "accepted"
    /\ "RC" \notin Contributors(last)
    /\ Len(last.handler_calls[1].args.receivers) >= 3

\* a group of three receivers stopped at the min_receivers check because one
\* of them was blacklisted after its copy was recorded
C17_WitnessFewReceivers ==
    /\ last.gid # 0
    /\ last.gid \in recorded_before_load
    /\ last.copies = 3
    /\ last.min_receivers = 3
    /\ Len(last.timestamp_map) = 2
    /\ last.outcome = "few_receivers"


\* ---------------------------------------------------------------------
\* C18: the returned clusters are disjoint and the loop terminates

\* how many elements of the list s equal e
Occurrences(s, e) == Cardinality({i \in Indices(s) : s[i] = e})

\* how many times the returned clusters use the entry e
Uses(e) ==
    LET F[k \in 0..Len(clusters)] ==
            IF k = 0 THEN 0
            ELSE F[k - 1] + Occurrences(Members(clusters[k]), e)
    IN F[Len(clusters)]

\* the rough groups the component is cut into
ComponentGroups ==
    LET flat == StableSort(Flatten(component), 2)
    IN RoughGroups(<< <<flat[1]>> >>, Tail(flat))

\* C18: the clusters returned by one call are pairwise disjoint: every
\* entry of the component is used by at most one returned cluster (an entry
\* the component holds twice, at most twice), and a cluster holds only
\* entries of the component; the loop over a group ends after at most
\* len(group) - 2 iterations, since every iteration removes at least the seed
C18_DisjointClusters ==
    Returned =>
        /\ \A i \in Indices(Entries(component)) :
              Uses(Entries(component)[i])
                  <= Occurrences(Entries(component), Entries(component)[i])
        /\ \A k \in Indices(clusters) :
              \A i \in Indices(Members(clusters[k])) :
                  Occurrences(Entries(component), Members(clusters[k])[i]) > 0
        /\ \A n \in Indices(ComponentGroups) :
              LET group == ComponentGroups[n]
              IN Iterations(group) <= IF Len(group) < 3 THEN 0 ELSE Len(group) - 2

\* two clusters returned by one call, each with the receivers RA, RC and RD
C18_Witness ==
    /\ Returned
    /\ Len(clusters) = 2
    /\ \A k \in Indices(clusters) :
          ReceiversOf(Members(clusters[k])) = {"RA", "RC", "RD"}

\* two returned clusters formed out of one rough group, after an entry the
\* component holds twice was refused by the first
C18_WitnessOneGroup ==
    /\ Returned
    /\ Len(clusters) = 2
    /\ Len(ComponentGroups) = 1
    /\ \E i \in Indices(Entries(component)) :
          Occurrences(Entries(component), Entries(component)[i]) = 2


\* ---------------------------------------------------------------------
\* C19: a committed result comes from one accepted cluster

\* the variance estimate of what the solver returned: the trace of the
\* covariance, 100e6 without one
VarEst(returned) ==
    IF returned[1].ecef_cov # None THEN returned[1].ecef_cov[1] ELSE VarLimit

\* the clusters of the report that the solver call was made on
ClustersOf(rep, call) ==
    {k \in Indices(rep.clusters) : StableSort(rep.clusters[k][2], 2) = call.cluster}

\* C19: every committed result (the last_result fields, the smoother update
\* and each output handler call of one resolution) comes from one single
\* accepted cluster, whose distinct count is at least the min_receivers of
\* the resolution (at least 3, at least 4 when the altitude is unknown) and
\* whose variance estimate is at most 100e6; the four last_result fields are
\* replaced together, and each output handler is called exactly once
C19_OneAcceptedCluster ==
    [][\A g \in DOMAIN fires :
          (Fires(g) /\ RefreshDue(g)) =>
             LET rep == last'
                 old == aircraft["A1"]
                 new == aircraft'["A1"]
                 committed == \/ LastResult(new) # LastResult(old)
                              \/ rep.kalman_updates # <<>>
                              \/ rep.handler_calls # <<>>
             IN committed =>
                  /\ rep.solver_calls # <<>>
                  /\ LET call == rep.solver_calls[Len(rep.solver_calls)]
                         ks == ClustersOf(rep, call)
                         k == CHOOSE k2 \in ks : TRUE
                         distinct == rep.clusters[k][1]
                         result == call.returned[1]
                     IN /\ Cardinality(ks) = 1
                        /\ call.returned # None
                        /\ distinct >= rep.min_receivers
                        /\ rep.min_receivers >= 3
                        /\ new.altitude = None => distinct >= 4
                        /\ VarEst(call.returned) <= VarLimit
                        /\ new.last_result_position = Some(result.ecef)
                        /\ new.last_result_var = Some(VarEst(call.returned))
                        /\ new.last_result_distinct = Some(distinct)
                        /\ new.last_result_time = Some(now)
                        /\ Len(rep.kalman_updates) = 1
                        /\ rep.kalman_updates[1].cluster = call.cluster
                        /\ rep.kalman_updates[1].ecef = result.ecef
                        /\ rep.kalman_updates[1].ecef_cov = result.ecef_cov
                        /\ rep.kalman_updates[1].distinct = distinct
                        /\ Len(rep.handler_calls) = Len(OutputHandlers)
                        /\ \A h \in Indices(OutputHandlers) :
                              /\ rep.handler_calls[h].handler = OutputHandlers[h]
                              /\ rep.handler_calls[h].args.ecef = result.ecef
                              /\ rep.handler_calls[h].args.ecef_cov = result.ecef_cov
                              /\ rep.handler_calls[h].args.distinct = distinct
                              /\ rep.handler_calls[h].args.receivers =
                                    [i \in Indices(call.cluster) |-> call.cluster[i][1]]]_vars

\* a result committed while the altitude is unknown: 4 distinct receivers
\* out of five
C19_Witness ==
    /\ last.gid # 0
    /\ last.outcome = "accepted"
    /\ aircraft["A1"].altitude = None
    /\ last.min_receivers = 4
    /\ aircraft["A1"].last_result_distinct = Some(4)
    /\ Len(last.handler_calls) = 2


\* ---------------------------------------------------------------------
\* C20: the table entry of a group whose resolution is scheduled

\* the table maps the message of group g to g itself
MapsToItself(g) ==
    /\ g \in DOMAIN group_objs
    /\ group_objs[g].message \in DOMAIN pending
    /\ pending[group_objs[g].message] = g

\* the table without the entry of message m
Without(pend, m) == [k \in DOMAIN pend \ {m} |-> pend[k]]

\* C20: under any interleaving of receiver_mlat calls and timer callbacks,
\* whenever the resolution of a group g is scheduled, and so at the moment
\* it fires, the table maps g.message to g itself; the removal at the start
\* of _resolve never fails with a missing key and removes the entry of g
\* only, never a newer group of the same message; a group whose resolution
\* has fired is not in the table, so a copy that arrives afterwards starts
\* a new group with its own timer and is never added to g
C20_TableMapsToGroup ==
    /\ [](\A h \in timers : MapsToItself(h.group))
    /\ [](last.exception # "KeyError")
    /\ [](\A m \in DOMAIN pending : fires[pending[m]] = 0)
    /\ [][\A g \in DOMAIN fires :
            Fires(g) =>
               /\ MapsToItself(g)
               /\ pending' = Without(pending, group_objs[g].message)
               /\ g \notin DOMAIN group_objs']_vars
    /\ [][\A g \in GroupIds :
            (/\ Creates(g)
             /\ last.gid # 0
             /\ group_objs'[g].message = last.message
             /\ last.message \notin DOMAIN pending) =>
               /\ g # last.gid
               /\ fires[last.gid] = 1
               /\ last.gid \notin DOMAIN group_objs'
               /\ pending'[last.message] = g
               /\ Len(group_objs'[g].copies) = 1
               /\ timers' = timers \cup {[when |-> now + MLAT_DELAY, group |-> g]}
               /\ [when |-> now + MLAT_DELAY, group |-> g] \notin timers]_vars

\* after the resolution of group 1 has fired, copies of the same message
\* have started group 2, which holds them and has its own timer
C20_Witness ==
    /\ fires = (1 :> 1) @@ (2 :> 0)
    /\ last.gid = 1
    /\ pending = (last.message :> 2)
    /\ Len(group_objs[2].copies) = 3
    /\ timers = {group_objs[2].handle}
    /\ 1 \notin DOMAIN group_objs

\* two groups of different messages are pending together and the older one
\* has been resolved: the entry of the other is still in the table
C20_WitnessInterleaved ==
    /\ last.gid = 1
    /\ fires = (1 :> 1) @@ (2 :> 0)
    /\ DOMAIN pending # {last.message}
    /\ pending # <<>>
    /\ group_objs[2].handle.when - MLAT_DELAY < last.now

====
